---- MODULE Spec2Model ----
(***************************************************************************)
(* Air-monitoring backend: temporal assignment and interval aggregation.   *)
(*                                                                         *)
(*   models.py   LocationSchedule.clean / overlaps_with / save,            *)
(*               updateSensorReadingLocations, updateValidations           *)
(*   admin.py    LocationScheduleAdmin.save_model                          *)
(*   views.py    JobLocationGasStatsViewSet.retrieve_for_gas,              *)
(*               retrieve_summary_for_gas                                  *)
(*   reports.py  drawSummaryTable, draw_combined_chart                     *)
(*                                                                         *)
(* Datetimes are instants 0..MaxTime; one instant is one minute.  A null   *)
(* column is a value outside the column's range (NoneDt, NonePk, NoneLoc). *)
(***************************************************************************)
EXTENDS Integers, Sequences, FiniteSets, TLC

\* ------------------------------------------------------------------ bounds
MaxTime == 1          \* schedule, invalidation and backfill instants 0..MaxTime
MaxPk == 2            \* LocationSchedule rows ever inserted
MaxInvPk == 2         \* SensorInvalidation rows ever inserted
AggMaxTime == 3       \* instants 0..AggMaxTime of the aggregation requests
MaxReadings == 2      \* readings in the store of an aggregation request
MaxInterval == 2      \* largest 'interval' (minutes) requested

\* ------------------------------------------------------- nulls and domains
NoneDt == -1
NonePk == 0
NoneLoc == 0

Times == 0..MaxTime
StopTimes == Times \cup {NoneDt}

\* Reference data (Job, Location, Detector, Sensor rows).  Location 1 belongs
\* to job 1 and location 2 to job 2; a label is unique within its job only,
\* and both locations carry the label "A".  Sensors 1 (CO) and 2 (H2S) sit
\* on detector 1, sensor 3 (CO) on detector 2.
Jobs == {1, 2}
Locations == {1, 2}
Detectors == {1, 2}
Sensors == {1, 2, 3}

LocJob(l) == l
LocLabel(l) == "A"
SensorDetector(s) == IF s = 3 THEN 2 ELSE 1
SensorGas(s) == IF s = 2 THEN "HS" ELSE "CO"
GAS_CHOICES == {"CO", "HS", "LE", "VO", "O2"}

\* 'location__label' compared as the database compares the two strings.
LabelLess(a, b) == a = "A" /\ b = "B"

\* ------------------------------------------------------------------- state
VARIABLES
    schedules,      \* LocationSchedule rows
    nextPk,         \* next AutoField value of LocationSchedule
    saveResult,     \* outcome of the latest LocationSchedule write
    dbTieOrder,     \* order in which the database returns rows that compare
                    \* equal under the queryset's ORDER BY (unspecified by SQL)
    readings,       \* SensorReading rows
    invalidations,  \* SensorInvalidation rows
    nextInvPk,      \* next AutoField value of SensorInvalidation
    lpass,          \* updateSensorReadingLocations: position and work list
    vpass,          \* updateValidations: position, work list, counter
    ovl,            \* overlaps_with call: arguments and results
    agg,            \* aggregation request and its response
    procs           \* concurrent invocations: each one's position and locals

vars == <<schedules, nextPk, saveResult, dbTieOrder, readings, invalidations,
          nextInvPk, lpass, vpass, ovl, agg, procs>>

\* A LocationSchedule instance; pk = NonePk until inserted.
ScheduleFields ==
    [location : Locations, detector : Detectors,
     start_dt : Times, stop_dt : StopTimes]

Instance(pk, f) ==
    [pk |-> pk, location |-> f.location, detector |-> f.detector,
     start_dt |-> f.start_dt, stop_dt |-> f.stop_dt]

\* ------------------------------------------------- LocationSchedule (model)

\* A mutation of overlaps_with: the both-bounded test made non-strict.
overlaps_with_nonstrict(self, other) ==
    IF self.stop_dt = NoneDt /\ other.stop_dt = NoneDt THEN TRUE
    ELSE IF self.stop_dt = NoneDt
         THEN (IF other.stop_dt # NoneDt
               THEN self.start_dt < other.stop_dt ELSE TRUE)
    ELSE IF other.stop_dt = NoneDt
         THEN (IF self.stop_dt # NoneDt
               THEN other.start_dt < self.stop_dt ELSE TRUE)
    ELSE self.start_dt <= other.stop_dt /\ other.start_dt <= self.stop_dt

\* A mutation of overlaps_with: the branch for an open-ended self compares
\* the two start times.
overlaps_with_lopsided(self, other) ==
    IF self.stop_dt = NoneDt /\ other.stop_dt = NoneDt THEN TRUE
    ELSE IF self.stop_dt = NoneDt
         THEN (IF other.stop_dt # NoneDt
               THEN self.start_dt < other.start_dt ELSE TRUE)
    ELSE IF other.stop_dt = NoneDt
         THEN (IF self.stop_dt # NoneDt
               THEN other.start_dt < self.stop_dt ELSE TRUE)
    ELSE self.start_dt < other.stop_dt /\ other.start_dt < self.stop_dt

\* LocationSchedule.overlaps_with.  "not x.stop_dt" is "stop_dt is None": a
\* datetime is never falsy.
overlaps_with(self, other) ==
    IF self.stop_dt = NoneDt /\ other.stop_dt = NoneDt THEN TRUE
    ELSE IF self.stop_dt = NoneDt
         THEN (IF other.stop_dt # NoneDt
               THEN self.start_dt < other.stop_dt ELSE TRUE)
    ELSE IF other.stop_dt = NoneDt
         THEN (IF self.stop_dt # NoneDt
               THEN other.start_dt < self.stop_dt ELSE TRUE)
    ELSE self.start_dt < other.stop_dt /\ other.start_dt < self.stop_dt

\* Meta.ordering = ['location__label', 'start_dt']; rows equal under both
\* keys come in the database's order, by pk ascending or descending.
ScheduleBefore(a, b, tie) ==
    \/ LabelLess(LocLabel(a.location), LocLabel(b.location))
    \/ /\ LocLabel(a.location) = LocLabel(b.location)
       /\ a.start_dt < b.start_dt
    \/ /\ LocLabel(a.location) = LocLabel(b.location)
       /\ a.start_dt = b.start_dt
       /\ IF tie = "asc" THEN a.pk < b.pk ELSE a.pk > b.pk

RECURSIVE OrderedSchedules(_, _)
OrderedSchedules(S, tie) ==
    IF S = {} THEN <<>>
    ELSE LET first == CHOOSE x \in S :
                        \A y \in S \ {x} : ScheduleBefore(x, y, tie)
         IN  <<first>> \o OrderedSchedules(S \ {first}, tie)

\* The first row of the queryset that self overlaps (0: none): the row the
\* for-loop of clean raises on.
FirstOverlap(self, q) ==
    LET hits == {i \in 1..Len(q) : overlaps_with(self, q[i])}
    IN  IF hits = {} THEN 0
        ELSE CHOOSE i \in hits : \A j \in hits : i <= j

NoError == [error |-> "none", schedule |-> NonePk]

\* A mutation of clean: the second loop (same detector) is missing.
clean_location_only(self, store, tie) ==
    LET locQ == OrderedSchedules(
                    {s \in store : s.location = self.location /\ s.pk # self.pk},
                    tie)
        locHit == FirstOverlap(self, locQ)
    IN  IF locHit # 0
        THEN [error |-> "location", schedule |-> locQ[locHit].pk]
        ELSE NoError

\* A mutation of clean: the candidate's own row is not excluded.
clean_with_self(self, store, tie) ==
    LET locQ == OrderedSchedules({s \in store : s.location = self.location}, tie)
        detQ == OrderedSchedules({s \in store : s.detector = self.detector}, tie)
        locHit == FirstOverlap(self, locQ)
        detHit == FirstOverlap(self, detQ)
    IN  IF locHit # 0
        THEN [error |-> "location", schedule |-> locQ[locHit].pk]
        ELSE IF detHit # 0
        THEN [error |-> "detector", schedule |-> detQ[detHit].pk]
        ELSE NoError

\* LocationSchedule.clean: the ValidationError it raises and the schedule
\* the message names, or NoError.  exclude(pk=None) excludes no row.
clean(self, store, tie) ==
    LET locQ == OrderedSchedules(
                    {s \in store : s.location = self.location /\ s.pk # self.pk},
                    tie)
        detQ == OrderedSchedules(
                    {s \in store : s.detector = self.detector /\ s.pk # self.pk},
                    tie)
        locHit == FirstOverlap(self, locQ)
        detHit == FirstOverlap(self, detQ)
    IN  IF locHit # 0
        THEN [error |-> "location", schedule |-> locQ[locHit].pk]
        ELSE IF detHit # 0
        THEN [error |-> "detector", schedule |-> detQ[detHit].pk]
        ELSE NoError

\* UniqueConstraint(fields=['location', 'start_dt', 'stop_dt']): two rows
\* violate it when the three columns are equal and none is NULL.
unique_location_schedule_time(row, store) ==
    \A s \in store :
        s.pk # row.pk =>
            ~ (/\ s.location = row.location
               /\ s.start_dt = row.start_dt
               /\ s.stop_dt = row.stop_dt
               /\ row.stop_dt # NoneDt)

\* A mutation of save: the row is written before clean is called.
save_before_clean(self, store, next, tie) ==
    LET verdict == clean(self, store, tie)
        row == IF self.pk = NonePk THEN [self EXCEPT !.pk = next] ELSE self
        written == {s \in store : s.pk # row.pk} \cup {row}
        after == IF self.pk = NonePk THEN next + 1 ELSE next
    IN  IF verdict.error # "none"
        THEN [outcome |-> "ValidationError", error |-> verdict.error,
              named |-> verdict.schedule, self |-> self,
              store |-> written, next |-> after]
        ELSE [outcome |-> "saved", error |-> "none",
              named |-> NonePk, self |-> row,
              store |-> written, next |-> after]

\* LocationSchedule.save on a store: clean, then Model.save (INSERT with a
\* fresh pk when self.pk is None, UPDATE of the row otherwise).
save(self, store, next, tie) ==
    LET verdict == clean(self, store, tie)
        row == IF self.pk = NonePk THEN [self EXCEPT !.pk = next] ELSE self
    IN  IF verdict.error # "none"
        THEN [outcome |-> "ValidationError", error |-> verdict.error,
              named |-> verdict.schedule, self |-> self,
              store |-> store, next |-> next]
        ELSE IF ~ unique_location_schedule_time(row, store)
        THEN [outcome |-> "IntegrityError", error |-> "none",
              named |-> NonePk, self |-> self,
              store |-> store, next |-> next]
        ELSE [outcome |-> "saved", error |-> "none",
              named |-> NonePk, self |-> row,
              store |-> {s \in store : s.pk # row.pk} \cup {row},
              next |-> IF self.pk = NonePk THEN next + 1 ELSE next]

\* LocationScheduleAdmin.save_model: obj.save(); on ValidationError the
\* message goes to the form, otherwise ModelAdmin.save_model saves obj again.
save_model(obj, store, next, tie) ==
    LET first == save(obj, store, next, tie)
    IN  IF first.outcome = "saved"
        THEN save(first.self, first.store, first.next, tie)
        ELSE first

\* LocationScheduleSerializer.validate on the submitted data: the
\* serializers.ValidationError it raises and the schedule the message
\* names, or NoError.  A read-only location is absent from data (NoneLoc)
\* and its block is skipped.  A datetime is always true, so 'start_dt and
\* stop_dt' asks only that both are present.
validate(data, instance_pk, store, tie) ==
    LET temp_instance == Instance(instance_pk, data)
        locQ == OrderedSchedules(
                    {s \in store : s.location = data.location
                                   /\ s.pk # instance_pk}, tie)
        detQ == OrderedSchedules(
                    {s \in store : s.detector = data.detector
                                   /\ s.pk # instance_pk}, tie)
        locHit == FirstOverlap(temp_instance, locQ)
        detHit == FirstOverlap(temp_instance, detQ)
    IN  IF data.stop_dt # NoneDt /\ data.start_dt > data.stop_dt
        THEN [error |-> "start_dt", schedule |-> NonePk]
        ELSE IF data.location # NoneLoc /\ locHit # 0
        THEN [error |-> "non_field_errors", schedule |-> locQ[locHit].pk]
        ELSE IF detHit # 0
        THEN [error |-> "detector", schedule |-> detQ[detHit].pk]
        ELSE NoError

\* JobLocationScheduleViewSet create (instance_pk = NonePk) and update: the
\* location comes from the URL and is read-only in the serializer;
\* is_valid runs validate, then serializer.save calls LocationSchedule.save.
api_save(instance_pk, location_id, f, store, next, tie) ==
    LET data == [f EXCEPT !.location = NoneLoc]
        obj == Instance(instance_pk, [f EXCEPT !.location = location_id])
        verdict == validate(data, instance_pk, store, tie)
    IN  IF verdict.error # "none"
        THEN [outcome |-> "BadRequest", error |-> verdict.error,
              named |-> verdict.schedule, self |-> obj,
              store |-> store, next |-> next]
        ELSE save(obj, store, next, tie)

NoWrite ==
    [op |-> "none", outcome |-> "none", error |-> "none", named |-> NonePk,
     self |-> [pk |-> NonePk, location |-> 1, detector |-> 1,
               start_dt |-> 0, stop_dt |-> NoneDt],
     unchanged |-> FALSE]

Written(op, r, unchanged) ==
    [op |-> op, outcome |-> r.outcome, error |-> r.error, named |-> r.named,
     self |-> r.self, unchanged |-> unchanged]

\* ------------------------------------------------------- schedule writes
\* Requests are served one at a time: a request starts only when the
\* previous response is out and no backfill pass is between its first and
\* its last statement.
Idle ==
    /\ lpass.pc \in {"idle", "done"}
    /\ vpass.pc \in {"idle", "done"}
    /\ saveResult.op = "none"

\* Bookkeeping: the location tags are those of a completed pass over the
\* current schedules (fresh) until a schedule is written.
Stale(p) == [p EXCEPT !.fresh = FALSE]

\* LocationSchedule(**fields).save(): a create.
CreateSchedule ==
    /\ Idle
    /\ nextPk <= MaxPk
    /\ \E f \in ScheduleFields :
         LET r == save(Instance(NonePk, f), schedules, nextPk, dbTieOrder)
         IN  /\ schedules' = r.store
             /\ nextPk' = r.next
             /\ saveResult' = Written("create", r, FALSE)
    /\ lpass' = Stale(lpass)
    /\ UNCHANGED <<procs, dbTieOrder, readings, invalidations, nextInvPk, vpass, ovl, agg>>

\* A persisted schedule, its fields edited, saved again: an update.
UpdateSchedule ==
    /\ Idle
    /\ \E old \in schedules, f \in ScheduleFields :
         LET r == save(Instance(old.pk, f), schedules, nextPk, dbTieOrder)
         IN  /\ schedules' = r.store
             /\ nextPk' = r.next
             /\ saveResult' = Written("update", r, Instance(old.pk, f) = old)
    /\ lpass' = Stale(lpass)
    /\ UNCHANGED <<procs, dbTieOrder, readings, invalidations, nextInvPk, vpass, ovl, agg>>

\* The admin change form (add when obj.pk is None, change otherwise).
AdminSaveModel ==
    /\ Idle
    /\ \E pk \in {NonePk} \cup {s.pk : s \in schedules}, f \in ScheduleFields :
         LET r == save_model(Instance(pk, f), schedules, nextPk, dbTieOrder)
         IN  /\ pk = NonePk => nextPk <= MaxPk
             /\ schedules' = r.store
             /\ nextPk' = r.next
             /\ saveResult' = Written("admin", r, Instance(pk, f) \in schedules)
    /\ lpass' = Stale(lpass)
    /\ UNCHANGED <<procs, dbTieOrder, readings, invalidations, nextInvPk, vpass, ovl, agg>>

\* POST /jobs/{job_id}/locations/{location_id}/schedules/
ApiCreateSchedule ==
    /\ Idle
    /\ nextPk <= MaxPk
    /\ \E location_id \in Locations, f \in ScheduleFields :
         LET r == api_save(NonePk, location_id, f, schedules, nextPk,
                           dbTieOrder)
         IN  /\ schedules' = r.store
             /\ nextPk' = r.next
             /\ saveResult' = Written("api_create", r, FALSE)
    /\ lpass' = Stale(lpass)
    /\ UNCHANGED <<procs, dbTieOrder, readings, invalidations, nextInvPk, vpass, ovl, agg>>

\* PUT /jobs/{job_id}/locations/{location_id}/schedules/{pk}/: the row is
\* one of the URL's location and keeps it.
ApiUpdateSchedule ==
    /\ Idle
    /\ \E old \in schedules, f \in ScheduleFields :
         LET r == api_save(old.pk, old.location, f, schedules, nextPk,
                           dbTieOrder)
         IN  /\ schedules' = r.store
             /\ nextPk' = r.next
             /\ saveResult' =
                    Written("api_update", r,
                            Instance(old.pk, [f EXCEPT !.location = old.location])
                                = old)
    /\ lpass' = Stale(lpass)
    /\ UNCHANGED <<procs, dbTieOrder, readings, invalidations, nextInvPk, vpass, ovl, agg>>

\* LocationSchedule.delete(): no validation; the row goes.
DeleteSchedule ==
    /\ Idle
    /\ \E old \in schedules :
         /\ schedules' = schedules \ {old}
         /\ saveResult' = [NoWrite EXCEPT !.op = "delete", !.outcome = "deleted",
                                          !.self = old]
    /\ lpass' = Stale(lpass)
    /\ UNCHANGED <<procs, nextPk, dbTieOrder, readings, invalidations, nextInvPk, vpass, ovl, agg>>

\* The same create and delete with the response discarded (the caller does
\* not look at it): a rejected create changes nothing.
CreateScheduleQuiet ==
    /\ Idle
    /\ nextPk <= MaxPk
    /\ \E f \in ScheduleFields :
         LET r == save(Instance(NonePk, f), schedules, nextPk, dbTieOrder)
         IN  /\ r.outcome = "saved"
             /\ schedules' = r.store
             /\ nextPk' = r.next
    /\ lpass' = Stale(lpass)
    /\ UNCHANGED <<procs, saveResult, dbTieOrder, readings, invalidations, nextInvPk, vpass,
                   ovl, agg>>

DeleteScheduleQuiet ==
    /\ Idle
    /\ \E old \in schedules : schedules' = schedules \ {old}
    /\ lpass' = Stale(lpass)
    /\ UNCHANGED <<procs, nextPk, saveResult, dbTieOrder, readings, invalidations, nextInvPk,
                   vpass, ovl, agg>>

\* The response of the write is returned; the next request can be served.
Respond ==
    /\ saveResult.op # "none"
    /\ saveResult' = NoWrite
    /\ UNCHANGED <<procs, schedules, nextPk, dbTieOrder, readings, invalidations, nextInvPk,
                   lpass, vpass, ovl, agg>>

\* ------------------------------------------------------------ SensorReading
\* A SensorReading row.  location and validation are nullable foreign keys.
Reading(id, sensor, log_time, value, location, validation) ==
    [id |-> id, sensor |-> sensor, log_time |-> log_time, reading |-> value,
     location |-> location, validation |-> validation]

\* The location (validation) column of every row, by row id.
LocationTags(rs) == {<<r.id, r.location>> : r \in rs}
ValidationTags(rs) == {<<r.id, r.validation>> : r \in rs}

\* Readings as the CSV import leaves them (no location, no validation):
\* sensor 1 at every instant, sensor 2 of the same detector at the last.
ImportedReadings ==
    {Reading(t + 1, 1, t, 1, NoneLoc, NonePk) : t \in Times}
        \cup {Reading(MaxTime + 2, 2, MaxTime, 1, NoneLoc, NonePk)}

\* ------------------------------------------- updateSensorReadingLocations
\* queryset.update(location=loc) on the rows of rs in matched.
update_location(rs, matched, loc) ==
    {IF r \in matched THEN [r EXCEPT !.location = loc] ELSE r : r \in rs}

\* A mutation of location_query: the stop bound made exclusive.
location_query_open(rs, sensor, schedule) ==
    {r \in rs : /\ r.sensor = sensor
                /\ r.log_time >= schedule.start_dt
                /\ (schedule.stop_dt # NoneDt => r.log_time < schedule.stop_dt)}

\* A mutation of location_query: the start bound is missing.
location_query_no_start(rs, sensor, schedule) ==
    {r \in rs : /\ r.sensor = sensor
                /\ (schedule.stop_dt # NoneDt => r.log_time <= schedule.stop_dt)}

\* filter(sensor=sensor, log_time__gte=start_dt), and
\* filter(log_time__lte=stop_dt) when the schedule has a stop.
location_query(rs, sensor, schedule) ==
    {r \in rs : /\ r.sensor = sensor
                /\ r.log_time >= schedule.start_dt
                /\ (schedule.stop_dt # NoneDt => r.log_time <= schedule.stop_dt)}

\* A mutation of clear_locations: the clearing update is missing.
clear_locations_skipped(rs) == rs

\* A mutation of clear_locations: the clearing update resets the validation
\* as well.
clear_locations_and_validations(rs) ==
    {[r EXCEPT !.location = NoneLoc, !.validation = NonePk] : r \in rs}

\* SensorReading.objects.all().update(location=None)
clear_locations(rs) == update_location(rs, rs, NoneLoc)

\* Sensor.objects.filter(detector=...): Sensor has no Meta.ordering.
RECURSIVE OrderedByPk(_, _)
OrderedByPk(S, tie) ==
    IF S = {} THEN <<>>
    ELSE LET first == CHOOSE x \in S :
                        \A y \in S : IF tie = "asc" THEN x <= y ELSE x >= y
         IN  <<first>> \o OrderedByPk(S \ {first}, tie)

SensorsOf(detector, tie) ==
    OrderedByPk({s \in Sensors : SensorDetector(s) = detector}, tie)

NoSchedule == NoWrite.self

\* The schedules of the reading's detector whose range holds its log_time.
Covering(r, store) ==
    {s \in store : /\ s.detector = SensorDetector(r.sensor)
                   /\ s.start_dt <= r.log_time
                   /\ (s.stop_dt = NoneDt \/ r.log_time <= s.stop_dt)}

NoLocPass ==
    [pc |-> "idle", queue |-> <<>>, schedule |-> NoSchedule, sensors |-> <<>>,
     fresh |-> FALSE, rerun |-> FALSE, stale |-> FALSE, before |-> {}]

\* Line 213: clear all locations.  Bookkeeping: 'rerun' says the tags found
\* were left by a completed pass over the same schedules and 'before' keeps
\* them; 'stale' says some reading carried a location that no schedule gives
\* it any more.
LocClear ==
    /\ Idle
    /\ readings' = clear_locations(readings)
    /\ lpass' = [NoLocPass EXCEPT
                    !.pc = "cleared",
                    !.rerun = lpass.fresh,
                    !.before = IF lpass.fresh THEN LocationTags(readings)
                               ELSE {},
                    !.stale = \E r \in readings :
                                /\ r.location # NoneLoc
                                /\ \A s \in Covering(r, schedules) :
                                        s.location # r.location]
    /\ UNCHANGED <<procs, schedules, nextPk, saveResult, dbTieOrder, invalidations, nextInvPk,
                   vpass, ovl, agg>>

\* Line 216: the for statement evaluates the queryset, in Meta.ordering.
LocFetch ==
    /\ lpass.pc = "cleared"
    /\ lpass' = [lpass EXCEPT !.pc = "loop",
                              !.queue = OrderedSchedules(schedules, dbTieOrder)]
    /\ UNCHANGED <<procs, schedules, nextPk, saveResult, dbTieOrder, readings,
                   invalidations, nextInvPk, vpass, ovl, agg>>

\* Lines 216-218: the next schedule and the sensors of its detector.
LocNextSchedule ==
    /\ lpass.pc = "loop"
    /\ lpass.sensors = <<>>
    /\ lpass.queue # <<>>
    /\ lpass' = [lpass EXCEPT
                    !.schedule = Head(lpass.queue),
                    !.queue = Tail(lpass.queue),
                    !.sensors = SensorsOf(Head(lpass.queue).detector, dbTieOrder)]
    /\ UNCHANGED <<procs, schedules, nextPk, saveResult, dbTieOrder, readings,
                   invalidations, nextInvPk, vpass, ovl, agg>>

\* Lines 220-232: one sensor of the schedule's detector; its readings in
\* the schedule's range get the schedule's location.
LocUpdate ==
    /\ lpass.pc = "loop"
    /\ lpass.sensors # <<>>
    /\ readings' = update_location(
                       readings,
                       location_query(readings, Head(lpass.sensors), lpass.schedule),
                       lpass.schedule.location)
    /\ lpass' = [lpass EXCEPT !.sensors = Tail(lpass.sensors)]
    /\ UNCHANGED <<procs, schedules, nextPk, saveResult, dbTieOrder, invalidations, nextInvPk,
                   vpass, ovl, agg>>

\* The loop is exhausted and the function returns.
LocReturn ==
    /\ lpass.pc = "loop"
    /\ lpass.sensors = <<>>
    /\ lpass.queue = <<>>
    /\ lpass' = [lpass EXCEPT !.pc = "done", !.fresh = TRUE,
                              !.schedule = NoSchedule]
    /\ UNCHANGED <<procs, schedules, nextPk, saveResult, dbTieOrder, readings,
                   invalidations, nextInvPk, vpass, ovl, agg>>

\* The process dies between two statements of the pass (a storage failure,
\* a kill): the tags written so far stay.
LocAbort ==
    /\ lpass.pc \in {"cleared", "loop"}
    /\ lpass' = [NoLocPass EXCEPT !.pc = "idle"]
    /\ UNCHANGED <<procs, schedules, nextPk, saveResult, dbTieOrder, readings,
                   invalidations, nextInvPk, vpass, ovl, agg>>

\* ------------------------------------------------------ SensorInvalidation
InvalidationFields ==
    [sensor : Sensors, start_dt : Times, stop_dt : StopTimes]

Invalidation(pk, f) ==
    [pk |-> pk, sensor |-> f.sensor, start_dt |-> f.start_dt,
     stop_dt |-> f.stop_dt]

\* SensorInvalidationViewSet.create: the row is inserted as posted.
CreateInvalidation ==
    /\ Idle
    /\ nextInvPk <= MaxInvPk
    /\ \E f \in InvalidationFields :
         invalidations' = invalidations \cup {Invalidation(nextInvPk, f)}
    /\ nextInvPk' = nextInvPk + 1
    /\ vpass' = Stale(vpass)
    /\ UNCHANGED <<procs, schedules, nextPk, saveResult, dbTieOrder, readings, lpass,
                   ovl, agg>>

\* SensorInvalidationViewSet.update: the row takes the posted fields.
UpdateInvalidation ==
    /\ Idle
    /\ \E old \in invalidations, f \in InvalidationFields :
         invalidations' = (invalidations \ {old}) \cup {Invalidation(old.pk, f)}
    /\ vpass' = Stale(vpass)
    /\ UNCHANGED <<procs, schedules, nextPk, saveResult, dbTieOrder, readings,
                   nextInvPk, lpass, ovl, agg>>

\* SensorInvalidationViewSet.destroy.  SensorReading.validation is declared
\* on_delete=CASCADE: the readings that refer to the row go with it.
DeleteInvalidation ==
    /\ Idle
    /\ \E old \in invalidations :
         /\ invalidations' = invalidations \ {old}
         /\ readings' = {r \in readings : r.validation # old.pk}
    /\ vpass' = Stale(vpass)
    /\ UNCHANGED <<procs, schedules, nextPk, saveResult, dbTieOrder, nextInvPk, lpass,
                   ovl, agg>>

\* ------------------------------------------------------ updateValidations
\* queryset.update(validation=invalidation) on the rows of rs in matched.
update_validation(rs, matched, pk) ==
    {IF r \in matched THEN [r EXCEPT !.validation = pk] ELSE r : r \in rs}

\* A mutation of validation_query: readings are matched through the
\* sensor's detector, as the location pass matches them.
validation_query_by_detector(rs, invalidation) ==
    {r \in rs : /\ SensorDetector(r.sensor) = SensorDetector(invalidation.sensor)
                /\ r.log_time >= invalidation.start_dt
                /\ (invalidation.stop_dt # NoneDt
                        => r.log_time <= invalidation.stop_dt)}

\* filter(sensor=invalidation.sensor, log_time__gte=start_dt), and
\* filter(log_time__lte=stop_dt) when the invalidation has a stop.
validation_query(rs, invalidation) ==
    {r \in rs : /\ r.sensor = invalidation.sensor
                /\ r.log_time >= invalidation.start_dt
                /\ (invalidation.stop_dt # NoneDt
                        => r.log_time <= invalidation.stop_dt)}

\* SensorReading.objects.all().update(validation=None)
clear_validations(rs) == update_validation(rs, rs, NonePk)

\* SensorInvalidation has no Meta.ordering: the rows come in the database's
\* order.
OrderedInvalidations(S, tie) ==
    LET byPk == OrderedByPk({i.pk : i \in S}, tie)
    IN  [k \in 1..Len(byPk) |-> CHOOSE i \in S : i.pk = byPk[k]]

\* The invalidations of the reading's sensor whose range holds its log_time.
Invalidating(r, store) ==
    {i \in store : /\ i.sensor = r.sensor
                   /\ i.start_dt <= r.log_time
                   /\ (i.stop_dt = NoneDt \/ r.log_time <= i.stop_dt)}

NoValPass ==
    [pc |-> "idle", queue |-> <<>>, count |-> 0, fresh |-> FALSE,
     rerun |-> FALSE, stale |-> FALSE, before |-> {}]

\* Line 255: clear all validation references.
ValClear ==
    /\ Idle
    /\ readings' = clear_validations(readings)
    /\ vpass' = [NoValPass EXCEPT
                    !.pc = "cleared",
                    !.rerun = vpass.fresh,
                    !.before = IF vpass.fresh THEN ValidationTags(readings)
                               ELSE {},
                    !.stale = \E r \in readings :
                                /\ r.validation # NonePk
                                /\ \A i \in Invalidating(r, invalidations) :
                                        i.pk # r.validation]
    /\ UNCHANGED <<procs, schedules, nextPk, saveResult, dbTieOrder, invalidations,
                   nextInvPk, lpass, ovl, agg>>

\* Lines 258-263: updated_readings_count = 0 and the for statement
\* evaluates the queryset.
ValFetch ==
    /\ vpass.pc = "cleared"
    /\ vpass' = [vpass EXCEPT
                    !.pc = "loop",
                    !.count = 0,
                    !.queue = OrderedInvalidations(invalidations, dbTieOrder)]
    /\ UNCHANGED <<procs, schedules, nextPk, saveResult, dbTieOrder, readings,
                   invalidations, nextInvPk, lpass, ovl, agg>>

\* Lines 263-276: one invalidation; the readings of its sensor in its range
\* refer to it, and their number is added to the counter.
ValUpdate ==
    /\ vpass.pc = "loop"
    /\ vpass.queue # <<>>
    /\ LET invalidation == Head(vpass.queue)
           matched == validation_query(readings, invalidation)
       IN  /\ readings' = update_validation(readings, matched, invalidation.pk)
           /\ vpass' = [vpass EXCEPT !.queue = Tail(vpass.queue),
                                     !.count = vpass.count + Cardinality(matched)]
    /\ UNCHANGED <<procs, schedules, nextPk, saveResult, dbTieOrder, invalidations,
                   nextInvPk, lpass, ovl, agg>>

\* Line 282: return updated_readings_count.
ValReturn ==
    /\ vpass.pc = "loop"
    /\ vpass.queue = <<>>
    /\ vpass' = [vpass EXCEPT !.pc = "done", !.fresh = TRUE]
    /\ UNCHANGED <<procs, schedules, nextPk, saveResult, dbTieOrder, readings,
                   invalidations, nextInvPk, lpass, ovl, agg>>

\* ------------------------------------------------------------- frozen parts
NoOverlapCall == [self |-> NoSchedule, other |-> NoSchedule,
                  called |-> FALSE, result |-> FALSE,
                  swapped |-> FALSE, reverse |-> FALSE]
NoAgg == [op |-> "none"]
\* No concurrent invocation is in flight.
NoProcs == <<>>

\* ------------------------------------------------------------ aggregation
\* An aggregate over no row, or an unset Python variable, is None.
None == <<>>
Some(x) == <<x>>

\* Averages are kept exact, as a sum over a positive count.
Ratio(n, d) == [num |-> n, den |-> d]
RatioLeq(a, b) == a.num * b.den <= b.num * a.den

ReadingValues == {1, 3}
AggTimes == 0..AggMaxTime
Intervals == 1..MaxInterval

\* SensorReadingViewSet.create: any sensor, log_time, reading, location and
\* validation; (sensor, log_time) is unique.  Readings are posted in the
\* order they were logged.
CreateReading ==
    /\ agg.op = "none"
    /\ Cardinality(readings) < MaxReadings
    /\ \E sensor \in {1, 2}, log_time \in AggTimes, value \in ReadingValues,
          location \in Locations \cup {NoneLoc},
          validation \in {i.pk : i \in invalidations} \cup {NonePk} :
         /\ \A r \in readings :
                \/ r.log_time < log_time
                \/ r.log_time = log_time /\ r.sensor < sensor
         /\ readings' = readings \cup
                {Reading(Cardinality(readings) + 1, sensor, log_time, value,
                         location, validation)}
    /\ UNCHANGED <<procs, schedules, nextPk, saveResult, dbTieOrder, invalidations,
                   nextInvPk, lpass, vpass, ovl, agg>>

\* Django aggregates over a queryset.
RECURSIVE Sum(_)
Sum(rs) ==
    IF rs = {} THEN 0
    ELSE LET r == CHOOSE x \in rs : TRUE
         IN  r.reading + Sum(rs \ {r})

Count(rs) == Cardinality(rs)
Avg(rs) == IF rs = {} THEN None ELSE Some(Ratio(Sum(rs), Count(rs)))
Min(rs) ==
    IF rs = {} THEN None
    ELSE Some(CHOOSE v \in {r.reading : r \in rs} :
                  \A r \in rs : v <= r.reading)
Max(rs) ==
    IF rs = {} THEN None
    ELSE Some(CHOOSE v \in {r.reading : r \in rs} :
                  \A r \in rs : r.reading <= v)

\* Python's max() and min() over a non-empty list of averages.
max(avgs) ==
    avgs[CHOOSE i \in 1..Len(avgs) :
             \A j \in 1..Len(avgs) : RatioLeq(avgs[j], avgs[i])]
min(avgs) ==
    avgs[CHOOSE i \in 1..Len(avgs) :
             \A j \in 1..Len(avgs) : RatioLeq(avgs[i], avgs[j])]

\* A mutation of the loop: its body runs once whatever the range.
intervals_once(current_time, end_date, interval_timedelta) ==
    <<[interval_start |-> current_time, interval_end |-> end_date]>>

\* The 'while current_time < end_date' loop: the windows it visits.
RECURSIVE intervals(_, _, _)
intervals(current_time, end_date, interval_timedelta) ==
    IF ~ (current_time < end_date) THEN <<>>
    ELSE LET unclipped == current_time + interval_timedelta
             interval_end == IF unclipped > end_date THEN end_date
                             ELSE unclipped
         IN  <<[interval_start |-> current_time,
                interval_end |-> interval_end]>>
                 \o intervals(interval_end, end_date, interval_timedelta)

\* A mutation of interval_readings: the window is closed at its start.
interval_readings_closed(queryset, w) ==
    {r \in queryset : r.log_time >= w.interval_start
                      /\ r.log_time <= w.interval_end}

\* The readings of one window: log_time__gt=current_time,
\* log_time__lte=interval_end.
interval_readings(queryset, w) ==
    {r \in queryset : r.log_time > w.interval_start
                      /\ r.log_time <= w.interval_end}

\* The views' queryset with the validation filter left out.
gas_queryset_any_validation(rs, location_id, gas_code, start_date, end_date) ==
    {r \in rs : /\ r.location = location_id
                /\ SensorGas(r.sensor) = gas_code
                /\ r.log_time >= start_date
                /\ r.log_time <= end_date}

\* The queryset of retrieve_for_gas and retrieve_summary_for_gas.
gas_queryset(rs, location_id, gas_code, start_date, end_date) ==
    {r \in rs : /\ r.location = location_id
                /\ SensorGas(r.sensor) = gas_code
                /\ r.validation = NonePk
                /\ r.log_time >= start_date
                /\ r.log_time <= end_date}

BadRequest == [status |-> 400, results |-> <<>>]

retrieve_for_gas(rs, job_id, location_id, gas_code, start_date, end_date, interval_minutes) ==
    IF ~ (job_id \in Jobs /\ location_id \in Locations
          /\ LocJob(location_id) = job_id) THEN BadRequest
    ELSE IF gas_code \notin GAS_CHOICES THEN BadRequest
    ELSE
        LET queryset == gas_queryset(rs, location_id, gas_code, start_date,
                                     end_date)
            ws == intervals(start_date, end_date, interval_minutes)
            stats(w) ==
                LET window == interval_readings(queryset, w)
                IN  [interval_start |-> w.interval_start,
                     interval_end |-> w.interval_end,
                     avg |-> Avg(window),
                     min |-> Min(window),
                     max |-> Max(window),
                     count |-> Count(window)]
        IN  [status |-> 200, results |-> [i \in 1..Len(ws) |-> stats(ws[i])]]

NoSummary ==
    [average |-> None, count |-> 0, max_avg |-> None, min_avg |-> None,
     max_individual |-> None, min_individual |-> None]

\* The handler never looks at job_id.
retrieve_summary_for_gas(rs, location_id, gas_code, start_date, end_date, interval_minutes) ==
    IF gas_code \notin GAS_CHOICES THEN [status |-> 400, result |-> NoSummary]
    ELSE
        LET queryset == gas_queryset(rs, location_id, gas_code, start_date,
                                     end_date)
            ws == intervals(start_date, end_date, interval_minutes)
            all == [i \in 1..Len(ws) |->
                        Avg(interval_readings(queryset, ws[i]))]
            present == SelectSeq(all, LAMBDA a : a # None)
            interval_averages == [i \in 1..Len(present) |-> present[i][1]]
        IN  [status |-> 200,
             result |->
                 [average |-> Avg(queryset),
                  count |-> Count(queryset),
                  max_avg |-> IF interval_averages = <<>> THEN None
                              ELSE Some(max(interval_averages)),
                  min_avg |-> IF interval_averages = <<>> THEN None
                              ELSE Some(min(interval_averages)),
                  max_individual |-> Max(queryset),
                  min_individual |-> Min(queryset)]]

\* A mutation of the reports' queryset: the gas filter is not applied.
report_queryset_any_gas(rs, start_date, end_date, selected_locations, selected_gases) ==
    {r \in rs :
        /\ r.validation = NonePk
        /\ r.log_time >= start_date
        /\ r.log_time <= end_date
        /\ selected_locations # {} => r.location \in selected_locations}

\* The queryset of drawSummaryTable and draw_combined_chart; an empty
\* selection applies no filter.
report_queryset(rs, start_date, end_date, selected_locations, selected_gases) ==
    {r \in rs :
        /\ r.validation = NonePk
        /\ r.log_time >= start_date
        /\ r.log_time <= end_date
        /\ selected_locations # {} => r.location \in selected_locations
        /\ selected_gases # {} => SensorGas(r.sensor) \in selected_gases}

\* key = (reading.location.label, reading.sensor.gas_code), for a reading
\* that has a location.
GroupKey(r) == <<LocLabel(r.location), SensorGas(r.sensor)>>

\* The values of the table rows, before they are formatted to two decimals.
drawSummaryTable(rs, start_date, end_date, interval, selected_locations, selected_gases) ==
    LET queryset == report_queryset(rs, start_date, end_date,
                                    selected_locations, selected_gases)
        interval_int == interval
    IN  IF ~ (interval_int > 0)
        THEN [outcome |-> "UnboundLocalError", table |-> {}]
        ELSE IF \E r \in queryset : r.location = NoneLoc
        THEN [outcome |-> "AttributeError", table |-> {}]
        ELSE
            LET ws == intervals(start_date, end_date, interval_int)
                group(k) == {r \in queryset : GroupKey(r) = k}
                all(k) == [i \in 1..Len(ws) |->
                               Avg(interval_readings(group(k), ws[i]))]
                present(k) == SelectSeq(all(k), LAMBDA a : a # None)
                interval_avgs(k) ==
                    [i \in 1..Len(present(k)) |-> present(k)[i][1]]
                row(k) ==
                    [location_label |-> k[1],
                     gas_code |-> k[2],
                     time_period_avg |-> Avg(group(k)),
                     count |-> Count(group(k)),
                     max_interval_avg |->
                         IF interval_avgs(k) = <<>> THEN None
                         ELSE Some(max(interval_avgs(k))),
                     min_interval_avg |->
                         IF interval_avgs(k) = <<>> THEN None
                         ELSE Some(min(interval_avgs(k))),
                     max_individual |-> Max(group(k)),
                     min_individual |-> Min(group(k))]
            IN  [outcome |-> "drawn",
                 table |-> {row(k) : k \in {GroupKey(r) : r \in queryset}}]

STAT_TYPES == {"avg", "min", "max", "count", "median"}

\* The value plotted for the readings of one group in one window.
stat_value(stat_type, rs) ==
    IF stat_type = "avg" THEN Ratio(Sum(rs), Count(rs))
    ELSE IF stat_type = "min" THEN Ratio(Min(rs)[1], 1)
    ELSE IF stat_type = "max" THEN Ratio(Max(rs)[1], 1)
    ELSE IF stat_type = "count" THEN Ratio(Count(rs), 1)
    ELSE Ratio(Sum(rs), Count(rs))

\* The chart and grouping options a report request can carry; "sensor" stands
\* for any value other than the two the code names.
CHART_TYPES == {"line", "bar"}
GROUP_BYS == {"location", "gas", "sensor"}

\* The option combinations the requests of the model carry: each option
\* takes every value while the others keep the defaults of the signature.
CHART_OPTIONS ==
    {[chart_type |-> "line", stat_type |-> s, group_by |-> "location"] :
         s \in STAT_TYPES}
    \cup {[chart_type |-> c, stat_type |-> "avg", group_by |-> g] :
              c \in CHART_TYPES, g \in GROUP_BYS}

\* The branch that plots the bars: only a bar chart reads group_by, and
\* every value other than "location" takes the branch of "gas".
bar_grouping(chart_type, group_by) ==
    IF chart_type = "bar"
    THEN IF group_by = "location" THEN "location" ELSE "gas"
    ELSE "none"

\* interval_stats_by_location_gas, as the plotting code receives it.
draw_combined_chart(rs, start_date, end_date, interval, selected_locations, selected_gases, stat_type) ==
    LET queryset == report_queryset(rs, start_date, end_date,
                                    selected_locations, selected_gases)
        interval_int == interval
        ws == intervals(start_date, end_date, interval_int)
        windowed == UNION {interval_readings(queryset, ws[i]) :
                               i \in 1..Len(ws)}
    IN  IF queryset = {} THEN [outcome |-> "No data", series |-> {}]
        ELSE IF \E r \in windowed : r.location = NoneLoc
        THEN [outcome |-> "AttributeError", series |-> {}]
        ELSE IF windowed = {} THEN [outcome |-> "No data", series |-> {}]
        ELSE
            LET group(k) == {r \in queryset : GroupKey(r) = k}
                all(k) == [i \in 1..Len(ws) |->
                               [timestamp |-> ws[i].interval_start,
                                readings |->
                                    interval_readings(group(k), ws[i])]]
                present(k) == SelectSeq(all(k), LAMBDA p : p.readings # {})
                line(k) ==
                    [location_label |-> k[1],
                     gas_code |-> k[2],
                     timestamps |-> [i \in 1..Len(present(k)) |->
                                         present(k)[i].timestamp],
                     values |-> [i \in 1..Len(present(k)) |->
                                     stat_value(stat_type,
                                                present(k)[i].readings)]]
            IN  [outcome |-> "drawn",
                 series |-> {line(k) : k \in {GroupKey(r) : r \in windowed}}]

\* interval_averages_by_location_gas of draw_gas_grouped_charts, whose
\* entries with points are regrouped by gas: one chart per gas.  After the
\* loop nothing tells an empty result from a drawn one.
draw_gas_grouped_charts(rs, start_date, end_date, interval, selected_locations, selected_gases) ==
    LET queryset == report_queryset(rs, start_date, end_date,
                                    selected_locations, selected_gases)
        interval_int == interval
        ws == intervals(start_date, end_date, interval_int)
        windowed == UNION {interval_readings(queryset, ws[i]) :
                               i \in 1..Len(ws)}
    IN  IF queryset = {} THEN [outcome |-> "No data", series |-> {}]
        ELSE IF \E r \in windowed : r.location = NoneLoc
        THEN [outcome |-> "AttributeError", series |-> {}]
        ELSE
            LET group(k) == {r \in queryset : GroupKey(r) = k}
                all(k) == [i \in 1..Len(ws) |->
                               [timestamp |-> ws[i].interval_start,
                                readings |->
                                    interval_readings(group(k), ws[i])]]
                present(k) == SelectSeq(all(k), LAMBDA p : p.readings # {})
                line(k) ==
                    [location_label |-> k[1],
                     gas_code |-> k[2],
                     timestamps |-> [i \in 1..Len(present(k)) |->
                                         present(k)[i].timestamp],
                     values |-> [i \in 1..Len(present(k)) |->
                                     stat_value("avg",
                                                present(k)[i].readings)]]
            IN  [outcome |-> "drawn",
                 series |-> {line(k) : k \in {GroupKey(r) : r \in windowed}}]

\* GET .../gases/{gas_code}/stats/
RetrieveForGas ==
    /\ agg.op = "none"
    /\ \E job_id \in Jobs, location_id \in Locations, gas_code \in {"CO", "HS"},
          start_date \in AggTimes, end_date \in AggTimes,
          interval \in Intervals :
         agg' = [op |-> "retrieve_for_gas",
                 request |-> [job_id |-> job_id, location_id |-> location_id,
                              gas_code |-> gas_code,
                              start_date |-> start_date,
                              end_date |-> end_date, interval |-> interval],
                 response |-> retrieve_for_gas(readings, job_id, location_id,
                                               gas_code, start_date, end_date,
                                               interval)]
    /\ UNCHANGED <<procs, schedules, nextPk, saveResult, dbTieOrder, readings,
                   invalidations, nextInvPk, lpass, vpass, ovl>>

\* GET .../gases/{gas_code}/summary/
RetrieveSummaryForGas ==
    /\ agg.op = "none"
    /\ \E location_id \in Locations, gas_code \in {"CO", "HS"},
          start_date \in AggTimes, end_date \in AggTimes,
          interval \in Intervals :
         agg' = [op |-> "retrieve_summary_for_gas",
                 request |-> [location_id |-> location_id,
                              gas_code |-> gas_code,
                              start_date |-> start_date,
                              end_date |-> end_date, interval |-> interval],
                 response |-> retrieve_summary_for_gas(
                                  readings, location_id, gas_code, start_date,
                                  end_date, interval)]
    /\ UNCHANGED <<procs, schedules, nextPk, saveResult, dbTieOrder, readings,
                   invalidations, nextInvPk, lpass, vpass, ovl>>

\* The report's summary table page.
DrawSummaryTable ==
    /\ agg.op = "none"
    /\ \E start_date \in AggTimes, end_date \in AggTimes,
          interval \in Intervals, selected_locations \in {{}, {1}},
          selected_gases \in {{}, {"CO"}} :
         agg' = [op |-> "drawSummaryTable",
                 request |-> [start_date |-> start_date,
                              end_date |-> end_date, interval |-> interval,
                              selected_locations |-> selected_locations,
                              selected_gases |-> selected_gases],
                 response |-> drawSummaryTable(
                                  readings, start_date, end_date, interval,
                                  selected_locations, selected_gases)]
    /\ UNCHANGED <<procs, schedules, nextPk, saveResult, dbTieOrder, readings,
                   invalidations, nextInvPk, lpass, vpass, ovl>>

\* The report's combined chart page.
DrawCombinedChart ==
    /\ agg.op = "none"
    /\ \E start_date \in AggTimes, end_date \in AggTimes,
          interval \in Intervals, selected_locations \in {{}, {1}},
          selected_gases \in {{}, {"CO"}}, options \in CHART_OPTIONS :
         LET stat_type == options.stat_type
             chart_type == options.chart_type
             group_by == options.group_by
             chart == draw_combined_chart(
                          readings, start_date, end_date, interval,
                          selected_locations, selected_gases, stat_type)
         IN  agg' = [op |-> "draw_combined_chart",
                     request |-> [start_date |-> start_date,
                                  end_date |-> end_date,
                                  interval |-> interval,
                                  selected_locations |-> selected_locations,
                                  selected_gases |-> selected_gases,
                                  stat_type |-> stat_type,
                                  chart_type |-> chart_type,
                                  group_by |-> group_by],
                     response |-> chart,
                     grouping |-> IF chart.outcome = "drawn"
                                  THEN bar_grouping(chart_type, group_by)
                                  ELSE "none"]
    /\ UNCHANGED <<procs, schedules, nextPk, saveResult, dbTieOrder, readings,
                   invalidations, nextInvPk, lpass, vpass, ovl>>

\* The report's chart pages, one per gas.
DrawGasGroupedCharts ==
    /\ agg.op = "none"
    /\ \E start_date \in AggTimes, end_date \in AggTimes,
          interval \in Intervals, selected_locations \in {{}, {1}},
          selected_gases \in {{}, {"CO"}} :
         agg' = [op |-> "draw_gas_grouped_charts",
                 request |-> [start_date |-> start_date,
                              end_date |-> end_date, interval |-> interval,
                              selected_locations |-> selected_locations,
                              selected_gases |-> selected_gases],
                 response |-> draw_gas_grouped_charts(
                                  readings, start_date, end_date, interval,
                                  selected_locations, selected_gases)]
    /\ UNCHANGED <<procs, schedules, nextPk, saveResult, dbTieOrder, readings,
                   invalidations, nextInvPk, lpass, vpass, ovl>>

\* 'location__label' as the database returns it: NULL for a reading
\* without location.
LabelOrNone(l) == IF l = NoneLoc THEN None ELSE Some(LocLabel(l))

\* The queryset of draw_summary_charts: log_time__gt=start_date,
\* log_time__lte=end_date.
summary_chart_queryset(rs, start_date, end_date, selected_locations, selected_gases) ==
    {r \in rs :
        /\ r.validation = NonePk
        /\ r.log_time > start_date
        /\ r.log_time <= end_date
        /\ selected_locations # {} => r.location \in selected_locations
        /\ selected_gases # {} => SensorGas(r.sensor) \in selected_gases}

\* location_gas_averages: the bars draw_summary_charts hands to the plot.
draw_summary_charts(rs, start_date, end_date, selected_locations, selected_gases) ==
    LET queryset == summary_chart_queryset(rs, start_date, end_date,
                                           selected_locations, selected_gases)
        key(r) == <<LabelOrNone(r.location), SensorGas(r.sensor)>>
        group(k) == {r \in queryset : key(r) = k}
    IN  IF queryset = {} THEN [outcome |-> "No data", averages |-> {}]
        ELSE [outcome |-> "drawn",
              averages |-> {[location_label |-> k[1], gas_code |-> k[2],
                             avg_value |-> Avg(group(k))] :
                                k \in {key(r) : r \in queryset}}]

\* The report's summary chart pages.  What ax.bar does with a NULL label is
\* the plotting library's business: the page is drawn or the call raises.
DrawSummaryCharts ==
    /\ agg.op = "none"
    /\ \E start_date \in AggTimes, end_date \in AggTimes,
          selected_locations \in {{}, {1}}, selected_gases \in {{}, {"CO"}} :
         LET charts == draw_summary_charts(readings, start_date, end_date,
                                           selected_locations, selected_gases)
         IN  \E plotted \in
                 IF \E bar \in charts.averages : bar.location_label = None
                 THEN {"drawn", "TypeError"} ELSE {charts.outcome} :
               agg' = [op |-> "draw_summary_charts",
                       request |-> [start_date |-> start_date,
                                    end_date |-> end_date,
                                    selected_locations |-> selected_locations,
                                    selected_gases |-> selected_gases],
                       response |-> [charts EXCEPT !.outcome = plotted]]
    /\ UNCHANGED <<procs, schedules, nextPk, saveResult, dbTieOrder, readings,
                   invalidations, nextInvPk, lpass, vpass, ovl>>

\* The response has been sent; the next request is served.
AggRespond ==
    /\ agg.op # "none"
    /\ agg' = NoAgg
    /\ UNCHANGED <<procs, schedules, nextPk, saveResult, dbTieOrder, readings,
                   invalidations, nextInvPk, lpass, vpass, ovl>>

\* ------------------------------------------- the window loop, step by step
\* The five entry points share one loop; here it runs one iteration at a
\* time, for any integer 'interval'.  The views select location 1 and CO,
\* the reports apply no filter.
ENTRY_POINTS ==
    {"retrieve_for_gas", "retrieve_summary_for_gas", "drawSummaryTable",
     "draw_combined_chart", "draw_gas_grouped_charts"}
REPORT_CHARTS == {"draw_combined_chart", "draw_gas_grouped_charts"}
REPORTS == REPORT_CHARTS \cup {"drawSummaryTable"}

\* Iterations after which the model stops following a loop.
MaxWindows == AggMaxTime + 1
AnyIntervals == (0 - 1)..MaxInterval

\* The queryset the entry point builds before the loop.
loop_queryset(entry, rs, start_date, end_date) ==
    IF entry \in REPORTS
    THEN report_queryset(rs, start_date, end_date, {}, {})
    ELSE gas_queryset(rs, 1, "CO", start_date, end_date)

\* The statements before 'while current_time < end_date'.
WindowEnter ==
    /\ agg.op = "none"
    /\ \E entry \in ENTRY_POINTS, start_date \in AggTimes,
          end_date \in AggTimes, interval \in AnyIntervals :
         LET queryset == loop_queryset(entry, readings, start_date, end_date)
             pc == IF entry = "drawSummaryTable" /\ ~ (interval > 0)
                   THEN "UnboundLocalError"
                   ELSE IF entry \in REPORT_CHARTS /\ queryset = {}
                   THEN "No data"
                   ELSE "loop"
         IN  agg' = [op |-> "window_loop", entry |-> entry,
                     request |-> [start_date |-> start_date,
                                  end_date |-> end_date,
                                  interval |-> interval],
                     pc |-> pc, current_time |-> start_date,
                     results |-> <<>>]
    /\ UNCHANGED <<procs, schedules, nextPk, saveResult, dbTieOrder, readings,
                   invalidations, nextInvPk, lpass, vpass, ovl>>

\* One iteration of the loop body: the window is clipped, its readings are
\* grouped (a report reads reading.location.label of each), current_time
\* becomes interval_end.
WindowStep ==
    /\ agg.op = "window_loop"
    /\ agg.pc = "loop"
    /\ agg.current_time < agg.request.end_date
    /\ Len(agg.results) < MaxWindows
    /\ LET unclipped == agg.current_time + agg.request.interval
           interval_end == IF unclipped > agg.request.end_date
                           THEN agg.request.end_date ELSE unclipped
           w == [interval_start |-> agg.current_time,
                 interval_end |-> interval_end]
           queryset == loop_queryset(agg.entry, readings,
                                     agg.request.start_date,
                                     agg.request.end_date)
       IN  IF /\ agg.entry \in REPORTS
              /\ \E r \in interval_readings(queryset, w) :
                     r.location = NoneLoc
           THEN agg' = [agg EXCEPT !.pc = "AttributeError"]
           ELSE agg' = [agg EXCEPT !.current_time = interval_end,
                                   !.results = Append(@, w)]
    /\ UNCHANGED <<procs, schedules, nextPk, saveResult, dbTieOrder, readings,
                   invalidations, nextInvPk, lpass, vpass, ovl>>

\* The loop condition is false: the statements after the loop run
\* (drawSummaryTable reads reading.location.label of every reading).
WindowExit ==
    /\ agg.op = "window_loop"
    /\ agg.pc = "loop"
    /\ ~ (agg.current_time < agg.request.end_date)
    /\ LET queryset == loop_queryset(agg.entry, readings,
                                     agg.request.start_date,
                                     agg.request.end_date)
       IN  agg' = [agg EXCEPT !.pc =
                       IF /\ agg.entry = "drawSummaryTable"
                          /\ \E r \in queryset : r.location = NoneLoc
                       THEN "AttributeError"
                       ELSE "returned"]
    /\ UNCHANGED <<procs, schedules, nextPk, saveResult, dbTieOrder, readings,
                   invalidations, nextInvPk, lpass, vpass, ovl>>

\* The caller has the response or the exception.
WindowRespond ==
    /\ agg.op = "window_loop"
    /\ agg.pc # "loop"
    /\ agg' = NoAgg
    /\ UNCHANGED <<procs, schedules, nextPk, saveResult, dbTieOrder, readings,
                   invalidations, nextInvPk, lpass, vpass, ovl>>

\* ------------------------------------------- Spec: the schedule write path
Init ==
    /\ schedules = {}
    /\ nextPk = 1
    /\ saveResult = NoWrite
    /\ dbTieOrder \in {"asc", "desc"}
    /\ readings = {}
    /\ invalidations = {}
    /\ nextInvPk = 1
    /\ lpass = NoLocPass
    /\ vpass = NoValPass
    /\ ovl = NoOverlapCall
    /\ agg = NoAgg
    /\ procs = NoProcs

Next ==
    \/ CreateSchedule
    \/ UpdateSchedule
    \/ AdminSaveModel
    \/ ApiCreateSchedule
    \/ ApiUpdateSchedule
    \/ DeleteSchedule
    \/ Respond

Spec == Init /\ [][Next]_vars

\* ------------------------- SpecLoc: schedule writes and the location pass
InitLoc ==
    /\ schedules = {}
    /\ nextPk = 1
    /\ saveResult = NoWrite
    /\ dbTieOrder \in {"asc", "desc"}
    /\ readings = ImportedReadings
    /\ invalidations = {}
    /\ nextInvPk = 1
    /\ lpass = NoLocPass
    /\ vpass = NoValPass
    /\ ovl = NoOverlapCall
    /\ agg = NoAgg
    /\ procs = NoProcs

NextLoc ==
    \/ CreateScheduleQuiet
    \/ DeleteScheduleQuiet
    \/ LocClear
    \/ LocFetch
    \/ LocNextSchedule
    \/ LocUpdate
    \/ LocReturn
    \/ LocAbort

SpecLoc == InitLoc /\ [][NextLoc]_vars

\* -------------------- SpecVal: invalidation writes and the validation pass
InitVal == InitLoc

NextVal ==
    \/ CreateInvalidation
    \/ UpdateInvalidation
    \/ DeleteInvalidation
    \/ ValClear
    \/ ValFetch
    \/ ValUpdate
    \/ ValReturn

SpecVal == InitVal /\ [][NextVal]_vars

\* ------------------------------ SpecOverlap: overlaps_with on any two rows
\* a.overlaps_with(b), as clean calls it on a candidate and a persisted row.
CallOverlaps ==
    /\ ~ ovl.called
    /\ ovl' = [ovl EXCEPT !.called = TRUE,
                          !.result = overlaps_with(ovl.self, ovl.other)]
    /\ UNCHANGED <<procs, schedules, nextPk, saveResult, dbTieOrder, readings,
                   invalidations, nextInvPk, lpass, vpass, agg>>

\* b.overlaps_with(a): the same pair with the roles exchanged.
CallOverlapsReversed ==
    /\ ~ ovl.swapped
    /\ ovl' = [ovl EXCEPT !.swapped = TRUE,
                          !.reverse = overlaps_with(ovl.other, ovl.self)]
    /\ UNCHANGED <<procs, schedules, nextPk, saveResult, dbTieOrder, readings,
                   invalidations, nextInvPk, lpass, vpass, agg>>

InitOverlap ==
    /\ schedules = {}
    /\ nextPk = 1
    /\ saveResult = NoWrite
    /\ dbTieOrder = "asc"
    /\ readings = {}
    /\ invalidations = {}
    /\ nextInvPk = 1
    /\ lpass = NoLocPass
    /\ vpass = NoValPass
    /\ agg = NoAgg
    /\ procs = NoProcs
    /\ \E f \in ScheduleFields, g \in ScheduleFields :
         ovl = [NoOverlapCall EXCEPT !.self = Instance(NonePk, f),
                                     !.other = Instance(1, g)]

NextOverlap ==
    \/ CallOverlaps
    \/ CallOverlapsReversed

SpecOverlap == InitOverlap /\ [][NextOverlap]_vars

\* ------------------------------- SpecAgg: aggregation over posted readings
\* One invalidation exists for readings to refer to.
InitAgg ==
    /\ schedules = {}
    /\ nextPk = 1
    /\ saveResult = NoWrite
    /\ dbTieOrder = "asc"
    /\ readings = {}
    /\ invalidations =
           {Invalidation(1, [sensor |-> 1, start_dt |-> 0, stop_dt |-> NoneDt])}
    /\ nextInvPk = 2
    /\ lpass = NoLocPass
    /\ vpass = NoValPass
    /\ ovl = NoOverlapCall
    /\ agg = NoAgg
    /\ procs = NoProcs

NextAgg ==
    \/ CreateReading
    \/ RetrieveForGas
    \/ RetrieveSummaryForGas
    \/ DrawSummaryTable
    \/ DrawCombinedChart
    \/ DrawGasGroupedCharts
    \/ DrawSummaryCharts
    \/ AggRespond

SpecAgg == InitAgg /\ [][NextAgg]_vars

\* ------------------------------ SpecWindow: the window loop for any interval
\* The store holds nothing, one located reading, or one reading that no
\* backfill has given a location.
InitWindow ==
    /\ schedules = {}
    /\ nextPk = 1
    /\ saveResult = NoWrite
    /\ dbTieOrder = "asc"
    /\ \E t \in AggTimes, location \in Locations \cup {NoneLoc} :
         readings \in {{}, {Reading(1, 1, t, 1, location, NonePk)}}
    /\ invalidations = {}
    /\ nextInvPk = 1
    /\ lpass = NoLocPass
    /\ vpass = NoValPass
    /\ ovl = NoOverlapCall
    /\ agg = NoAgg
    /\ procs = NoProcs

NextWindow ==
    \/ WindowEnter
    \/ WindowStep
    \/ WindowExit
    \/ WindowRespond

SpecWindow == InitWindow /\ [][NextWindow]_vars

\* =================================================================== claims

Bounded(s) == s.stop_dt # NoneDt
SharesResource(a, b) == a.location = b.location \/ a.detector = b.detector

\* The instants a schedule occupies: [start_dt, stop_dt), unbounded to the
\* right when stop_dt is null.
Occupies(s, t) == s.start_dt <= t /\ (s.stop_dt = NoneDt \/ t < s.stop_dt)

\* C1: after any sequence of completed creates, updates and deletes from the
\* empty store, no two distinct persisted schedules that share a location or
\* a detector overlap (as overlaps_with computes it); hence at every instant
\* a detector is at one location at most and a location hosts one detector
\* at most.
C1_NoPersistedOverlap ==
    \A a \in schedules, b \in schedules :
        (a.pk # b.pk /\ SharesResource(a, b)) =>
            /\ ~ overlaps_with(a, b)
            /\ \A t \in Times : ~ (Occupies(a, t) /\ Occupies(b, t))

\* Two schedules of one detector at two locations, the second starting when
\* the first stops, stand in the store after an update.
C1_Witness ==
    /\ saveResult.op = "update"
    /\ saveResult.outcome = "saved"
    /\ \E a \in schedules, b \in schedules :
         /\ a.detector = b.detector
         /\ a.location # b.location
         /\ a.start_dt < a.stop_dt
         /\ a.stop_dt = b.start_dt

\* The persisted rows, other than the candidate's own, that share the
\* candidate's location or detector and overlap it.
Conflicts(c, store) ==
    {o \in store : o.pk # c.pk /\ SharesResource(c, o) /\ overlaps_with(c, o)}

\* C2: a save fails with a validation error naming a schedule that overlaps
\* the candidate if and only if another persisted schedule shares its
\* location or detector and overlaps it; otherwise the candidate is
\* accepted (it is persisted); re-saving an unchanged persisted schedule is
\* accepted.
C2_SaveRejectsIffConflict ==
    saveResult.op \in {"create", "update", "admin"} =>
        LET c == saveResult.self
            conflicts == Conflicts(c, schedules)
        IN  /\ (saveResult.outcome = "ValidationError") <=> (conflicts # {})
            /\ saveResult.outcome = "ValidationError" =>
                    saveResult.named \in {o.pk : o \in conflicts}
            /\ conflicts = {} =>
                    (saveResult.outcome = "saved" /\ c \in schedules)
            /\ saveResult.unchanged => saveResult.outcome = "saved"

\* C3: when updateSensorReadingLocations has completed, a reading's
\* location is null exactly when no schedule of its sensor's detector has
\* start <= log_time and (no stop or log_time <= stop), and is otherwise
\* the location of such a schedule; a location held before the pass that
\* no schedule gives any more is cleared.
C3_LocationPassResult ==
    (lpass.pc = "done" /\ lpass.fresh) =>
        \A r \in readings :
            /\ (r.location = NoneLoc) <=> (Covering(r, schedules) = {})
            /\ r.location # NoneLoc =>
                   \E s \in Covering(r, schedules) : s.location = r.location

\* A pass that found a location no schedule gives any more has completed,
\* leaving one reading tagged and one cleared.
C3_Witness ==
    /\ lpass.pc = "done"
    /\ lpass.fresh
    /\ lpass.stale
    /\ \E r \in readings : r.location # NoneLoc
    /\ \E r \in readings : r.location = NoneLoc

\* The windows a request asks for, written out from its range and size:
\* window k (from 0) is (start + k*size, min(start + (k+1)*size, end)].
WindowCount(req) ==
    IF req.start_date < req.end_date
    THEN ((req.end_date - req.start_date) + req.interval - 1) \div req.interval
    ELSE 0
WindowStart(req, k) == req.start_date + k * req.interval
WindowEnd(req, k) ==
    IF WindowStart(req, k + 1) > req.end_date THEN req.end_date
    ELSE WindowStart(req, k + 1)
InWindow(req, k, r) ==
    WindowStart(req, k) < r.log_time /\ r.log_time <= WindowEnd(req, k)
InRange(req, r) == req.start_date < r.log_time /\ r.log_time <= req.end_date

\* The valid readings a request selects, apart from the range.
ViewSelects(req, r) ==
    /\ r.validation = NonePk
    /\ r.location = req.location_id
    /\ SensorGas(r.sensor) = req.gas_code
ReportSelects(req, r) ==
    /\ r.validation = NonePk
    /\ req.selected_locations # {} => r.location \in req.selected_locations
    /\ req.selected_gases # {} => SensorGas(r.sensor) \in req.selected_gases

RECURSIVE SumCounts(_)
SumCounts(results) ==
    IF results = <<>> THEN 0
    ELSE Head(results).count + SumCounts(Tail(results))

RECURSIVE SumValues(_)
SumValues(values) ==
    IF values = <<>> THEN 0
    ELSE Head(values).num + SumValues(Tail(values))

RECURSIVE SumSeries(_)
SumSeries(series) ==
    IF series = {} THEN 0
    ELSE LET l == CHOOSE x \in series : TRUE
         IN  SumValues(l.values) + SumSeries(series \ {l})

\* retrieve_for_gas returns the windows of the request, each with the count
\* of the selected readings inside it, and the counts add up to the
\* selected readings of (range_start, range_end].
WindowsPartitionView ==
    (/\ agg.op = "retrieve_for_gas"
     /\ agg.request.start_date < agg.request.end_date
     /\ LocJob(agg.request.location_id) = agg.request.job_id) =>
        LET req == agg.request
            res == agg.response.results
            sel == {r \in readings : ViewSelects(req, r)}
        IN  /\ agg.response.status = 200
            /\ Len(res) = WindowCount(req)
            /\ \A i \in 1..Len(res) :
                   /\ res[i].interval_start = WindowStart(req, i - 1)
                   /\ res[i].interval_end = WindowEnd(req, i - 1)
                   /\ res[i].count =
                          Cardinality({r \in sel : InWindow(req, i - 1, r)})
            /\ res[Len(res)].interval_end = req.end_date
            /\ \A r \in sel :
                   InRange(req, r) =>
                       Cardinality({i \in 1..Len(res) :
                                        /\ res[i].interval_start < r.log_time
                                        /\ r.log_time <= res[i].interval_end})
                           = 1
            /\ SumCounts(res) = Cardinality({r \in sel : InRange(req, r)})

\* The points of a drawn count chart are windows of the request, each with
\* the count of its group's selected readings inside the window, and the
\* points add up to the selected readings of (range_start, range_end].
ChartCountsPartition ==
    LET req == agg.request
        sel == {r \in readings : ReportSelects(req, r)}
    IN  /\ \A l \in agg.response.series :
               \A i \in 1..Len(l.timestamps) :
                   \E k \in 0..(WindowCount(req) - 1) :
                       /\ l.timestamps[i] = WindowStart(req, k)
                       /\ l.values[i] =
                              Ratio(Cardinality(
                                        {r \in sel :
                                            /\ r.location # NoneLoc
                                            /\ GroupKey(r) =
                                                   <<l.location_label,
                                                     l.gas_code>>
                                            /\ InWindow(req, k, r)}), 1)
        /\ SumSeries(agg.response.series) =
               Cardinality({r \in sel : InRange(req, r)})

\* C4: for range_start < range_end and a window size > 0 the windows are
\* consecutive (w_i, w_i+1] from range_start, window_minutes long except
\* the last, clipped to range_end; every reading of (range_start,
\* range_end] is counted in exactly one window and the per-window counts
\* add up to the readings of (range_start, range_end], in retrieve_for_gas
\* and in draw_combined_chart, for any reading set.
C4_WindowsPartitionRange ==
    /\ WindowsPartitionView
    /\ (/\ agg.op = "draw_combined_chart"
        /\ agg.request.start_date < agg.request.end_date
        /\ agg.request.stat_type = "count") =>
           /\ agg.response.outcome \in {"drawn", "No data"}
           /\ ChartCountsPartition

\* The same for draw_combined_chart when it returns: it raises when a
\* selected reading of (range_start, range_end] has no location.
WindowsPartitionLocated ==
    /\ WindowsPartitionView
    /\ (/\ agg.op = "draw_combined_chart"
        /\ agg.request.start_date < agg.request.end_date
        /\ agg.request.stat_type = "count") =>
           /\ agg.response.outcome = "AttributeError" <=>
                  \E r \in readings :
                      /\ ReportSelects(agg.request, r)
                      /\ InRange(agg.request, r)
                      /\ r.location = NoneLoc
           /\ agg.response.outcome # "AttributeError" => ChartCountsPartition

\* min_individual <= min_avg <= average <= max_avg <= max_individual, for
\* five values that are all defined.
Ordered(min_individual, min_avg, average, max_avg, max_individual) ==
    (/\ min_individual # None
     /\ min_avg # None
     /\ average # None
     /\ max_avg # None
     /\ max_individual # None) =>
        /\ RatioLeq(Ratio(min_individual[1], 1), min_avg[1])
        /\ RatioLeq(min_avg[1], average[1])
        /\ RatioLeq(average[1], max_avg[1])
        /\ RatioLeq(max_avg[1], Ratio(max_individual[1], 1))

\* C5: for every group key, range and window size > 0, when all five
\* summary values are defined, min_individual <= min_of_window_averages <=
\* time_period_average <= max_of_window_averages <= max_individual, in
\* retrieve_summary_for_gas and in drawSummaryTable.
C5_SummaryOrdering ==
    /\ agg.op = "retrieve_summary_for_gas" =>
           LET s == agg.response.result
           IN  Ordered(s.min_individual, s.min_avg, s.average, s.max_avg,
                       s.max_individual)
    /\ agg.op = "drawSummaryTable" =>
           \A row \in agg.response.table :
               Ordered(row.min_individual, row.min_interval_avg,
                       row.time_period_avg, row.max_interval_avg,
                       row.max_individual)

\* The ordering holds for the requests none of whose selected readings was
\* logged exactly at range_start.
SummaryOrderingOffStart ==
    /\ (/\ agg.op = "retrieve_summary_for_gas"
        /\ \A r \in readings :
               ViewSelects(agg.request, r) =>
                   r.log_time # agg.request.start_date) =>
           LET s == agg.response.result
           IN  Ordered(s.min_individual, s.min_avg, s.average, s.max_avg,
                       s.max_individual)
    /\ (/\ agg.op = "drawSummaryTable"
        /\ \A r \in readings :
               ReportSelects(agg.request, r) =>
                   r.log_time # agg.request.start_date) =>
           \A row \in agg.response.table :
               Ordered(row.min_individual, row.min_interval_avg,
                       row.time_period_avg, row.max_interval_avg,
                       row.max_individual)

Valid(rs) == {r \in rs : r.validation = NonePk}

\* C6: a reading whose validation is non-null contributes to no count,
\* average, minimum or maximum of the window aggregation or the summary:
\* every response is the one the same request gets from the store with
\* the invalidated readings taken out.
C6_InvalidatedExcluded ==
    LET req == agg.request
    IN  /\ agg.op = "retrieve_for_gas" =>
               agg.response =
                   retrieve_for_gas(Valid(readings), req.job_id,
                                    req.location_id, req.gas_code,
                                    req.start_date, req.end_date,
                                    req.interval)
        /\ agg.op = "retrieve_summary_for_gas" =>
               agg.response =
                   retrieve_summary_for_gas(Valid(readings), req.location_id,
                                            req.gas_code, req.start_date,
                                            req.end_date, req.interval)
        /\ agg.op = "drawSummaryTable" =>
               agg.response =
                   drawSummaryTable(Valid(readings), req.start_date,
                                    req.end_date, req.interval,
                                    req.selected_locations,
                                    req.selected_gases)
        /\ agg.op = "draw_combined_chart" =>
               agg.response =
                   draw_combined_chart(Valid(readings), req.start_date,
                                       req.end_date, req.interval,
                                       req.selected_locations,
                                       req.selected_gases, req.stat_type)

\* A window of retrieve_for_gas counted one reading while an invalidated
\* reading of the same location and gas lay in the same window.
C6_Witness ==
    /\ agg.op = "retrieve_for_gas"
    /\ agg.response.status = 200
    /\ \E i \in 1..Len(agg.response.results) :
         /\ agg.response.results[i].count = 1
         /\ \E r \in readings :
              /\ r.validation # NonePk
              /\ r.location = agg.request.location_id
              /\ SensorGas(r.sensor) = agg.request.gas_code
              /\ r.log_time > agg.response.results[i].interval_start
              /\ r.log_time <= agg.response.results[i].interval_end

\* The location a completed pass leaves on a reading: that of the last
\* schedule, in the order of processing, whose range holds the reading.
ExpectedLocation(r, store, tie) ==
    LET q == OrderedSchedules(store, tie)
        hits == {i \in 1..Len(q) : q[i] \in Covering(r, store)}
    IN  IF hits = {} THEN NoneLoc
        ELSE q[CHOOSE i \in hits : \A j \in hits : j <= i].location

\* C7: a pass run again over unchanged schedules and readings leaves the
\* locations the previous pass left; the locations a completed pass leaves
\* are determined by the schedules and the readings' sensors and log_times,
\* whatever the readings carried before (also after an aborted pass).
C7_LocationPassIdempotent ==
    (lpass.pc = "done" /\ lpass.fresh) =>
        /\ lpass.rerun => LocationTags(readings) = lpass.before
        /\ \A r \in readings :
               r.location = ExpectedLocation(r, schedules, dbTieOrder)

\* A second pass in a row has completed with some reading tagged.
C7_Witness ==
    /\ lpass.pc = "done"
    /\ lpass.fresh
    /\ lpass.rerun
    /\ \E r \in readings : r.location # NoneLoc

\* C8: when updateValidations has completed, a reading's validation is null
\* exactly when no invalidation of its own sensor has start <= log_time and
\* (no stop or log_time <= stop), and otherwise refers to such an
\* invalidation; an invalidation never tags a reading of another sensor,
\* not even one of the same detector.
C8_ValidationPassResult ==
    (vpass.pc = "done" /\ vpass.fresh) =>
        \A r \in readings :
            /\ (r.validation = NonePk) <=> (Invalidating(r, invalidations) = {})
            /\ r.validation # NonePk =>
                   r.validation \in {i.pk : i \in Invalidating(r, invalidations)}
            /\ \A i \in invalidations :
                   r.validation = i.pk => i.sensor = r.sensor

\* A completed pass tagged a reading of sensor 1 and left untagged the
\* reading sensor 2 of the same detector took at the same instant.
C8_Witness ==
    /\ vpass.pc = "done"
    /\ vpass.fresh
    /\ \E r \in readings, q \in readings :
         /\ r.sensor = 1
         /\ q.sensor = 2
         /\ r.log_time = q.log_time
         /\ r.validation # NonePk
         /\ q.validation = NonePk

\* C9: overlaps_with equals the four-case predicate: true when both are
\* open-ended; A.start < B.stop when only A is; B.start < A.stop when only B
\* is; both inequalities when both are bounded.  A bounded candidate that
\* stops at or before the start of an open-ended schedule does not overlap
\* it.
FourCases(a, b) ==
    CASE ~ Bounded(a) /\ ~ Bounded(b) -> TRUE
      [] ~ Bounded(a) /\ Bounded(b)   -> a.start_dt < b.stop_dt
      [] Bounded(a) /\ ~ Bounded(b)   -> b.start_dt < a.stop_dt
      [] Bounded(a) /\ Bounded(b)     ->
            a.start_dt < b.stop_dt /\ b.start_dt < a.stop_dt

C9_OverlapFourCases ==
    ovl.called =>
        /\ ovl.result = FourCases(ovl.self, ovl.other)
        /\ (/\ Bounded(ovl.self)
            /\ ~ Bounded(ovl.other)
            /\ ovl.self.stop_dt <= ovl.other.start_dt) => ~ ovl.result

\* A proper bounded candidate stopping where an open-ended schedule starts
\* has been compared with it.
C9_Witness ==
    /\ ovl.called
    /\ Bounded(ovl.self)
    /\ ovl.self.start_dt < ovl.self.stop_dt
    /\ ~ Bounded(ovl.other)
    /\ ovl.self.stop_dt = ovl.other.start_dt
    /\ ~ ovl.result

\* C10: overlaps_with is symmetric: a.overlaps_with(b) = b.overlaps_with(a)
\* for bounded and open-ended schedules alike.
C10_OverlapSymmetric ==
    (ovl.called /\ ovl.swapped) => ovl.result = ovl.reverse

\* Both calls were made on an open-ended and a bounded schedule that
\* overlap.
C10_Witness ==
    /\ ovl.called
    /\ ovl.swapped
    /\ ~ Bounded(ovl.self)
    /\ Bounded(ovl.other)
    /\ ovl.result
    /\ ovl.reverse

\* The write path accepts the schedule when nothing else is persisted.
AcceptedAlone(s) ==
    /\ save(Instance(NonePk, s), {}, 1, "asc").outcome = "saved"
    /\ api_save(NonePk, s.location, s, {}, 1, "asc").outcome = "saved"

\* A.stop = B.start means no overlap, A.stop = B.start + 1 means overlap.
TouchingAndAdjacent(a, b, result) ==
    Bounded(a) =>
        /\ a.stop_dt = b.start_dt => ~ result
        /\ a.stop_dt = b.start_dt + 1 => result

\* C11: for any two schedules A and B the write path accepts individually,
\* A.stop == B.start implies they do not overlap and A.stop == B.start + 1
\* instant implies they do.
C11_TouchingAdjacent ==
    (/\ ovl.called
     /\ AcceptedAlone(ovl.self)
     /\ AcceptedAlone(ovl.other)) =>
        TouchingAndAdjacent(ovl.self, ovl.other, ovl.result)

\* The same for schedules that start before they stop.
TouchingAdjacentProper ==
    (/\ ovl.called
     /\ Bounded(ovl.self) => ovl.self.start_dt < ovl.self.stop_dt
     /\ Bounded(ovl.other) => ovl.other.start_dt < ovl.other.stop_dt) =>
        TouchingAndAdjacent(ovl.self, ovl.other, ovl.result)

WriteOps == {"create", "update", "admin", "api_create", "api_update"}
Rejected == {"ValidationError", "BadRequest"}
Inverted(s) == Bounded(s) /\ s.start_dt >= s.stop_dt

\* C12: a candidate with start and stop both present and start >= stop is
\* rejected with a validation error by the schedule write path and is
\* never persisted.
C12_InvertedRejected ==
    /\ (saveResult.op \in WriteOps /\ Inverted(saveResult.self)) =>
           saveResult.outcome \in Rejected
    /\ \A s \in schedules : ~ Inverted(s)

\* What the write path does reject: through the serializer, start > stop.
LaterStartRejectedByApi ==
    (/\ saveResult.op \in {"api_create", "api_update"}
     /\ Bounded(saveResult.self)
     /\ saveResult.self.start_dt > saveResult.self.stop_dt) =>
        saveResult.outcome = "BadRequest"

\* C13: a LocationSchedule save that is rejected leaves the persisted
\* schedules exactly as they were before the call: the candidate is not
\* inserted, an updated row keeps its old values and no other schedule
\* changes (nor is a primary key used up).
C13_RejectedSaveChangesNothing ==
    [][(/\ saveResult.op = "none"
        /\ saveResult'.op \in WriteOps
        /\ saveResult'.outcome # "saved") =>
           (schedules' = schedules /\ nextPk' = nextPk)]_vars

\* An update was rejected for a conflict and the row still differs from
\* the rejected candidate.
C13_Witness ==
    /\ saveResult.op \in {"update", "api_update"}
    /\ saveResult.outcome \in Rejected
    /\ saveResult.named # NonePk
    /\ \E s \in schedules : s.pk = saveResult.self.pk /\ s # saveResult.self

\* The loop taken step by step visits the windows of 'intervals'.
WindowLoopAgrees ==
    (/\ agg.op = "window_loop"
     /\ agg.pc = "returned"
     /\ agg.request.interval > 0) =>
        agg.results = intervals(agg.request.start_date, agg.request.end_date,
                                agg.request.interval)

\* C14: for every window_minutes <= 0 and range_start < range_end each
\* entry point terminates, by rejecting the parameter or by using a
\* 60-minute window; the window loop never runs forever: every iteration
\* of a loop entered for such a request moves current_time towards
\* end_date (the loop condition reads nothing but current_time and
\* end_date, so an iteration that does not is followed by another for
\* ever).
C14_NonPositiveWindowTerminates ==
    [][(/\ agg.op = "window_loop"
        /\ agg'.op = "window_loop"
        /\ agg.request.interval <= 0
        /\ agg.request.start_date < agg.request.end_date
        /\ agg.pc = "loop"
        /\ agg'.pc = "loop") =>
           agg'.current_time > agg.current_time]_vars

\* With a positive window every iteration moves current_time forward and
\* the loop takes at most range_end - range_start iterations.
PositiveWindowTerminates ==
    [][(/\ agg'.op = "window_loop"
        /\ agg'.request.interval > 0) =>
           /\ Len(agg'.results) <=
                  IF agg'.request.start_date < agg'.request.end_date
                  THEN agg'.request.end_date - agg'.request.start_date
                  ELSE 0
           /\ (/\ agg.op = "window_loop"
               /\ agg.pc = "loop"
               /\ agg'.pc = "loop") =>
                  agg'.current_time > agg.current_time]_vars

\* C15: for range_start >= range_end and a valid window size the window
\* aggregation returns an empty series, no window and no point, and raises
\* no error, whatever readings exist.
C15_EmptyRangeEmptySeries ==
    agg.op \in {"retrieve_for_gas", "draw_combined_chart",
                "draw_gas_grouped_charts"}
    /\ agg.request.start_date >= agg.request.end_date =>
        IF agg.op = "retrieve_for_gas"
        THEN LocJob(agg.request.location_id) = agg.request.job_id =>
                 /\ agg.response.status = 200
                 /\ agg.response.results = <<>>
        ELSE /\ agg.response.outcome \in {"No data", "drawn"}
             /\ agg.response.series = {}

\* A chart was asked for a range that starts where it ends, with a reading
\* without location logged at that very instant.
C15_Witness ==
    /\ agg.op = "draw_combined_chart"
    /\ agg.request.start_date = agg.request.end_date
    /\ agg.request.selected_locations = {}
    /\ agg.response.outcome = "No data"
    /\ \E r \in readings :
         /\ r.log_time = agg.request.start_date
         /\ r.location = NoneLoc
         /\ r.validation = NonePk

\* The readings a request selects, range included (both ends).
Matching(op, req) ==
    {r \in readings :
        /\ req.start_date <= r.log_time
        /\ r.log_time <= req.end_date
        /\ IF op \in {"retrieve_for_gas", "retrieve_summary_for_gas"}
           THEN ViewSelects(req, r) ELSE ReportSelects(req, r)}

C17_SparseDataNeverRaises ==
    (agg.op \in REPORTS \cup {"draw_combined_chart"}
     /\ agg.request.start_date < agg.request.end_date) =>
        agg.response.outcome \in {"drawn", "No data"}

\* C18: a chart request whose statistic kind is not one of avg, min, max,
\* count, or whose group-by key is not one of the known keys, is rejected
\* and produces no series.
C18_UnknownOptionRejected ==
    (agg.op = "draw_combined_chart"
     /\ \/ agg.request.stat_type \notin {"avg", "min", "max", "count"}
        \/ agg.request.group_by \notin {"location", "gas"}) =>
        /\ agg.response.outcome # "drawn"
        /\ agg.response.series = {}

\* What the chart does with an unknown statistic kind: it plots the series
\* of the averages.
UnknownStatTypePlotsAvg ==
    (agg.op = "draw_combined_chart"
     /\ agg.request.stat_type \notin {"avg", "min", "max", "count"}) =>
        agg.response.series =
            draw_combined_chart(readings, agg.request.start_date,
                                agg.request.end_date, agg.request.interval,
                                agg.request.selected_locations,
                                agg.request.selected_gases, "avg").series

\* C19: every create or delete of a LocationSchedule re-derives the reading
\* caches: in the state the write leaves, each reading's location is the one
\* the schedules covering its log_time dictate.
C19_WriteRederivesLocations ==
    [][schedules' # schedules =>
          \A r \in readings' :
              r.location = ExpectedLocation(r, schedules', dbTieOrder)]_vars

\* C20: SensorReading rows are append-only: no write of an invalidation and
\* no backfill pass removes a reading or changes its sensor, log_time or
\* reading; only its location and validation may change.
C20_ReadingsAppendOnly ==
    [][\A r \in readings :
          \E kept \in readings' :
              /\ kept.id = r.id
              /\ kept.sensor = r.sensor
              /\ kept.log_time = r.log_time
              /\ kept.reading = r.reading]_vars

\* What does hold: the passes and the creation or update of an invalidation
\* keep every reading and its measured fields.
PassesKeepReadings ==
    [][Cardinality(invalidations') >= Cardinality(invalidations) =>
          \A r \in readings :
              \E kept \in readings' :
                  /\ kept.id = r.id
                  /\ kept.sensor = r.sensor
                  /\ kept.log_time = r.log_time
                  /\ kept.reading = r.reading]_vars

\* C21: updateValidations returns the number of readings the pass updated:
\* when the pass returns, the returned count is the number of readings whose
\* validation is not null, also when invalidations of one sensor overlap.
C21_CountIsInvalidatedReadings ==
    (vpass.pc = "done" /\ vpass.fresh) =>
        vpass.count = Cardinality({r \in readings : r.validation # NonePk})

\* What does hold: the count is the sum, over the invalidations, of the
\* readings each one covers.
RECURSIVE CoveredSum(_)
CoveredSum(S) ==
    IF S = {} THEN 0
    ELSE LET i == CHOOSE x \in S : TRUE
         IN  Cardinality(validation_query(readings, i)) + CoveredSum(S \ {i})

CountIsSumOverInvalidations ==
    (vpass.pc = "done" /\ vpass.fresh) => vpass.count = CoveredSum(invalidations)

\* The count is exact while no reading is covered twice.
CountExactWithoutOverlap ==
    (vpass.pc = "done" /\ vpass.fresh
     /\ \A r \in readings : Cardinality(Invalidating(r, invalidations)) <= 1) =>
        vpass.count = Cardinality({r \in readings : r.validation # NonePk})

\* ------------------------------- SpecConc: two invocations of one pass
\* A pass run from its first statement to its return with nothing in
\* between: what a single invocation produces.
RECURSIVE apply_sensors(_, _, _)
apply_sensors(rs, sensors, schedule) ==
    IF sensors = <<>> THEN rs
    ELSE apply_sensors(
             update_location(rs, location_query(rs, Head(sensors), schedule),
                             schedule.location),
             Tail(sensors), schedule)

RECURSIVE apply_schedules(_, _, _)
apply_schedules(rs, queue, tie) ==
    IF queue = <<>> THEN rs
    ELSE apply_schedules(
             apply_sensors(rs, SensorsOf(Head(queue).detector, tie), Head(queue)),
             Tail(queue), tie)

updateSensorReadingLocations(rs, store, tie) ==
    apply_schedules(clear_locations(rs), OrderedSchedules(store, tie), tie)

RECURSIVE apply_invalidations(_, _)
apply_invalidations(rs, queue) ==
    IF queue = <<>> THEN rs
    ELSE apply_invalidations(
             update_validation(rs, validation_query(rs, Head(queue)),
                               Head(queue).pk),
             Tail(queue))

updateValidations(rs, store, tie) ==
    apply_invalidations(clear_validations(rs), OrderedInvalidations(store, tie))

Invocations == 1..2
PASSES == {"location", "validation"}

\* An invocation that has not started.
NotStarted(pass) ==
    [pass |-> pass, pc |-> "idle", queue |-> <<>>, schedule |-> NoSchedule,
     sensors |-> <<>>, overlapped |-> FALSE]

Running(p) == procs[p].pc \in {"cleared", "loop"}

\* The stores of up to two schedules that save has accepted one by one.
SavedStores(tie) ==
    LET one == {save(Instance(NonePk, f), {}, 1, tie).store :
                    f \in ScheduleFields}
    IN  {{}} \cup one
        \cup {save(Instance(NonePk, f), S, 2, tie).store :
                  f \in ScheduleFields, S \in one}

\* The stores of up to two invalidations: the viewset inserts what is posted.
PostedInvalidations ==
    {{}} \cup {{Invalidation(1, f)} : f \in InvalidationFields}
         \cup {{Invalidation(1, f), Invalidation(2, g)} :
                   f \in InvalidationFields, g \in InvalidationFields}

\* The first statement of invocation p: the clearing update.  'overlapped'
\* records that the other invocation was between its clear and its return.
ConcClear(p) ==
    /\ procs[p].pc = "idle"
    /\ readings' = IF procs[p].pass = "location"
                   THEN clear_locations(readings)
                   ELSE clear_validations(readings)
    /\ procs' = [procs EXCEPT
                    ![p].pc = "cleared",
                    ![p].overlapped = \E q \in Invocations \ {p} : Running(q)]
    /\ UNCHANGED <<schedules, nextPk, saveResult, dbTieOrder, invalidations,
                   nextInvPk, lpass, vpass, ovl, agg>>

\* The for statement of invocation p evaluates its queryset.
ConcFetch(p) ==
    /\ procs[p].pc = "cleared"
    /\ procs' = [procs EXCEPT
                    ![p].pc = "loop",
                    ![p].queue =
                        IF procs[p].pass = "location"
                        THEN OrderedSchedules(schedules, dbTieOrder)
                        ELSE OrderedInvalidations(invalidations, dbTieOrder)]
    /\ UNCHANGED <<schedules, nextPk, saveResult, dbTieOrder, readings,
                   invalidations, nextInvPk, lpass, vpass, ovl, agg>>

\* Location pass: the next schedule and the sensors of its detector.
ConcNextSchedule(p) ==
    /\ procs[p].pass = "location"
    /\ procs[p].pc = "loop"
    /\ procs[p].sensors = <<>>
    /\ procs[p].queue # <<>>
    /\ procs' = [procs EXCEPT
                    ![p].schedule = Head(procs[p].queue),
                    ![p].queue = Tail(procs[p].queue),
                    ![p].sensors = SensorsOf(Head(procs[p].queue).detector,
                                             dbTieOrder)]
    /\ UNCHANGED <<schedules, nextPk, saveResult, dbTieOrder, readings,
                   invalidations, nextInvPk, lpass, vpass, ovl, agg>>

\* A mutation of the location pass's bulk update: only readings that carry
\* no location yet are updated.
ConcLocUpdate_untagged_only(p) ==
    /\ procs[p].pass = "location"
    /\ procs[p].pc = "loop"
    /\ procs[p].sensors # <<>>
    /\ readings' = update_location(
                       readings,
                       {r \in location_query(readings, Head(procs[p].sensors),
                                             procs[p].schedule) :
                            r.location = NoneLoc},
                       procs[p].schedule.location)
    /\ procs' = [procs EXCEPT ![p].sensors = Tail(procs[p].sensors)]
    /\ UNCHANGED <<schedules, nextPk, saveResult, dbTieOrder, invalidations,
                   nextInvPk, lpass, vpass, ovl, agg>>

\* Location pass: the bulk update for one sensor of the schedule's detector.
ConcLocUpdate(p) ==
    /\ procs[p].pass = "location"
    /\ procs[p].pc = "loop"
    /\ procs[p].sensors # <<>>
    /\ readings' = update_location(
                       readings,
                       location_query(readings, Head(procs[p].sensors),
                                      procs[p].schedule),
                       procs[p].schedule.location)
    /\ procs' = [procs EXCEPT ![p].sensors = Tail(procs[p].sensors)]
    /\ UNCHANGED <<schedules, nextPk, saveResult, dbTieOrder, invalidations,
                   nextInvPk, lpass, vpass, ovl, agg>>

\* Validation pass: the bulk update for one invalidation.
ConcValUpdate(p) ==
    /\ procs[p].pass = "validation"
    /\ procs[p].pc = "loop"
    /\ procs[p].queue # <<>>
    /\ LET invalidation == Head(procs[p].queue)
       IN  readings' = update_validation(
                           readings, validation_query(readings, invalidation),
                           invalidation.pk)
    /\ procs' = [procs EXCEPT ![p].queue = Tail(procs[p].queue)]
    /\ UNCHANGED <<schedules, nextPk, saveResult, dbTieOrder, invalidations,
                   nextInvPk, lpass, vpass, ovl, agg>>

\* The loop of invocation p is exhausted and the function returns.
ConcReturn(p) ==
    /\ procs[p].pc = "loop"
    /\ procs[p].sensors = <<>>
    /\ procs[p].queue = <<>>
    /\ procs' = [procs EXCEPT ![p].pc = "done", ![p].schedule = NoSchedule]
    /\ UNCHANGED <<schedules, nextPk, saveResult, dbTieOrder, readings,
                   invalidations, nextInvPk, lpass, vpass, ovl, agg>>

\* Two invocations of the same pass over imported readings and a store
\* that stays as it is.
InitConc ==
    /\ dbTieOrder \in {"asc", "desc"}
    /\ \E pass \in PASSES :
         /\ procs = [p \in Invocations |-> NotStarted(pass)]
         /\ IF pass = "location"
            THEN /\ schedules \in SavedStores(dbTieOrder)
                 /\ invalidations = {}
            ELSE /\ schedules = {}
                 /\ invalidations \in PostedInvalidations
    /\ nextPk = Cardinality(schedules) + 1
    /\ nextInvPk = Cardinality(invalidations) + 1
    /\ saveResult = NoWrite
    /\ readings = ImportedReadings
    /\ lpass = NoLocPass
    /\ vpass = NoValPass
    /\ ovl = NoOverlapCall
    /\ agg = NoAgg

NextConc ==
    \E p \in Invocations :
        \/ ConcClear(p)
        \/ ConcFetch(p)
        \/ ConcNextSchedule(p)
        \/ ConcLocUpdate(p)
        \/ ConcValUpdate(p)
        \/ ConcReturn(p)

SpecConc == InitConc /\ [][NextConc]_vars

\* What a single invocation leaves on the current store.
SingleResult ==
    IF procs[1].pass = "location"
    THEN updateSensorReadingLocations(readings, schedules, dbTieOrder)
    ELSE updateValidations(readings, invalidations, dbTieOrder)

AllReturned == \A p \in Invocations : procs[p].pc = "done"
Interleaved == \E p \in Invocations : procs[p].overlapped

\* C22 (as stated): two invocations of the same pass that interleave over
\* unchanged data finish with an assignment other than the one a single
\* invocation produces.
C22_InterleavingFinishesDifferently ==
    (AllReturned /\ Interleaved) => readings # SingleResult

\* C22 (amended): when both invocations have returned the assignment is the
\* one a single invocation produces, whatever the interleaving of their
\* bulk updates; an invocation that returns while the other is still
\* running may leave a different one.
C22_InterleavingConverges ==
    AllReturned => readings = SingleResult

\* One invocation has returned while the other, started in between, has
\* only cleared: a reading a schedule or invalidation covers is untagged.
C22_Witness ==
    /\ Interleaved
    /\ \E p \in Invocations, q \in Invocations :
         /\ procs[p].pc = "done"
         /\ Running(q)
    /\ readings # SingleResult

\* The orders in which the rows of S can be processed.
ProcessingOrders(S) ==
    {q \in [1..Cardinality(S) -> S] :
        \A i \in DOMAIN q, j \in DOMAIN q : q[i] = q[j] => i = j}

\* The schedules of store end after they start.
ProperStore(store) ==
    \A sch \in store : sch.stop_dt = NoneDt \/ sch.start_dt < sch.stop_dt

\* C23: for every schedule set the conflict check accepted and every reading
\* set the location pass produces the same assignment for every order in
\* which the schedules are processed, also for a reading logged at the
\* boundary two touching schedules of its detector share.
C23_OrderIndependent ==
    ProperStore(schedules) =>
        \A q1 \in ProcessingOrders(schedules),
           q2 \in ProcessingOrders(schedules) :
            apply_schedules(clear_locations(readings), q1, dbTieOrder)
                = apply_schedules(clear_locations(readings), q2, dbTieOrder)

\* What does hold: the order matters only for readings more than one
\* schedule covers.
OrderIndependentUnlessDoublyCovered ==
    (\A r \in readings : Cardinality(Covering(r, schedules)) <= 1) =>
        \A q1 \in ProcessingOrders(schedules),
           q2 \in ProcessingOrders(schedules) :
            apply_schedules(clear_locations(readings), q1, dbTieOrder)
                = apply_schedules(clear_locations(readings), q2, dbTieOrder)

\* A reading's location is null or the location of a schedule of its
\* detector that holds its log_time.
Justified(r, store) ==
    \/ r.location = NoneLoc
    \/ \E sch \in Covering(r, store) : sch.location = r.location

\* C24: in every intermediate state of a location pass (after the clear
\* step and after each per-schedule, per-sensor update) each reading's
\* location is null or justified by the current schedules; a pass aborted
\* at any step leaves such a state.
C24_IntermediateJustified ==
    [][(lpass.pc \in {"cleared", "loop"}
        /\ lpass'.pc \in {"cleared", "loop", "done", "idle"}
        /\ schedules' = schedules) =>
          /\ \A r \in readings : Justified(r, schedules)
          /\ \A r \in readings' : Justified(r, schedules')]_vars

\* A pass is in its loop, having tagged one reading while another reading
\* that a schedule covers is still untagged.
C24_Witness ==
    /\ lpass.pc = "loop"
    /\ \E r \in readings : r.location # NoneLoc
    /\ \E r \in readings : r.location = NoneLoc /\ Covering(r, schedules) # {}
    /\ \A r \in readings : Justified(r, schedules)

\* C25: the whole-range statistics and the window statistics of one summary
\* are computed over the same readings: the summary's count is the sum of
\* the per-window counts of the same request.
C25_SummaryCountIsWindowSum ==
    (/\ agg.op = "retrieve_summary_for_gas"
     /\ agg.response.status = 200
     /\ agg.request.start_date < agg.request.end_date) =>
        LET req == agg.request
            windows == retrieve_for_gas(readings, LocJob(req.location_id),
                                        req.location_id, req.gas_code,
                                        req.start_date, req.end_date,
                                        req.interval)
        IN  agg.response.result.count = SumCounts(windows.results)

\* What does hold: the count exceeds the sum of the window counts by the
\* selected readings logged exactly at range_start.
SummaryCountExceedsByStart ==
    (/\ agg.op = "retrieve_summary_for_gas"
     /\ agg.response.status = 200
     /\ agg.request.start_date < agg.request.end_date) =>
        LET req == agg.request
            windows == retrieve_for_gas(readings, LocJob(req.location_id),
                                        req.location_id, req.gas_code,
                                        req.start_date, req.end_date,
                                        req.interval)
        IN  agg.response.result.count =
                SumCounts(windows.results)
                + Cardinality({r \in readings :
                                   /\ ViewSelects(req, r)
                                   /\ r.log_time = req.start_date})

\* The points of a chart line: at each timestamp the window that starts
\* there holds a selected reading of the line's group, a window that holds
\* none has no point, and the timestamps strictly increase.
LinePointsPresent(req, l) ==
    LET inGroup(r) == /\ ReportSelects(req, r)
                      /\ GroupKey(r) = <<l.location_label, l.gas_code>>
        filled == {k \in 0..(WindowCount(req) - 1) :
                       \E r \in readings : inGroup(r) /\ InWindow(req, k, r)}
    IN  /\ {l.timestamps[i] : i \in DOMAIN l.timestamps}
               = {WindowStart(req, k) : k \in filled}
        /\ Len(l.timestamps) = Len(l.values)
        /\ \A i \in DOMAIN l.timestamps, j \in DOMAIN l.timestamps :
               i < j => l.timestamps[i] < l.timestamps[j]

NotSaved(f) ==
    [pass |-> "save", pc |-> "idle", self |-> Instance(NonePk, f),
     verdict |-> NoError]

\* self.clean() of invocation p: the two querysets are read now; the
\* ValidationError ends the call.
SaveClean(p) ==
    /\ procs[p].pc = "idle"
    /\ LET verdict == clean(procs[p].self, schedules, dbTieOrder)
       IN  procs' = [procs EXCEPT
                        ![p].verdict = verdict,
                        ![p].pc = IF verdict.error # "none"
                                  THEN "ValidationError" ELSE "cleaned"]
    /\ UNCHANGED <<schedules, nextPk, saveResult, dbTieOrder, readings,
                   invalidations, nextInvPk, lpass, vpass, ovl, agg>>

\* super().save() of invocation p: the INSERT, checked by the database
\* against the unique constraint only.
SaveInsert(p) ==
    /\ procs[p].pc = "cleaned"
    /\ LET row == [procs[p].self EXCEPT !.pk = nextPk]
       IN  IF unique_location_schedule_time(row, schedules)
           THEN /\ schedules' = schedules \cup {row}
                /\ nextPk' = nextPk + 1
                /\ procs' = [procs EXCEPT ![p].pc = "saved", ![p].self = row]
           ELSE /\ procs' = [procs EXCEPT ![p].pc = "IntegrityError"]
                /\ UNCHANGED <<schedules, nextPk>>
    /\ UNCHANGED <<saveResult, dbTieOrder, readings, invalidations,
                   nextInvPk, lpass, vpass, ovl, agg>>

\* Two creates are under way on a store of at most one accepted schedule.
InitSaves ==
    /\ dbTieOrder \in {"asc", "desc"}
    /\ schedules \in {S \in SavedStores(dbTieOrder) : Cardinality(S) <= 1}
    /\ nextPk = Cardinality(schedules) + 1
    /\ procs \in [Invocations -> {NotSaved(f) : f \in ScheduleFields}]
    /\ saveResult = NoWrite
    /\ readings = {}
    /\ invalidations = {}
    /\ nextInvPk = 1
    /\ lpass = NoLocPass
    /\ vpass = NoValPass
    /\ ovl = NoOverlapCall
    /\ agg = NoAgg

NextSaves ==
    \E p \in Invocations :
        \/ SaveClean(p)
        \/ SaveInsert(p)

SpecSaves == InitSaves /\ [][NextSaves]_vars

\* C27: when two save() calls run concurrently, each as a conflict check
\* followed by a separate insert, no interleaving reaches a state in which
\* two persisted schedules that share a location or a detector overlap.
C27_ConcurrentSavesNoOverlap ==
    \A a \in schedules, b \in schedules :
        (a.pk # b.pk /\ SharesResource(a, b)) => ~ overlaps_with(a, b)

\* What does hold: a save whose clean ran after the other's insert never
\* adds a row that overlaps a persisted one.
SerialSavesNoOverlap ==
    [][\A p \in Invocations :
          (procs[p].pc = "idle" /\ procs'[p].pc = "cleaned") =>
              Conflicts(procs[p].self, schedules) = {}]_vars

\* The readings of one Location row that a report request selects for a gas.
LocatedMatching(req, loc, gas) ==
    {r \in Matching("drawSummaryTable", req) :
         r.location = loc /\ SensorGas(r.sensor) = gas}

\* C28: in the report aggregations every (location, gas) group holds
\* readings of exactly one Location: each row of the summary table counts
\* the readings of one Location row, also with no location filter and
\* Locations of different jobs.
C28_GroupIsOneLocation ==
    (agg.op = "drawSummaryTable" /\ agg.response.outcome = "drawn") =>
        \A row \in agg.response.table :
            \E loc \in Locations :
                /\ LocLabel(loc) = row.location_label
                /\ row.count =
                       Cardinality(LocatedMatching(agg.request, loc,
                                                   row.gas_code))

\* What does hold: a row counts the readings of all the Locations that
\* carry its label.
GroupIsOneLabel ==
    (agg.op = "drawSummaryTable" /\ agg.response.outcome = "drawn") =>
        \A row \in agg.response.table :
            row.count =
                Cardinality(UNION {LocatedMatching(agg.request, loc,
                                                   row.gas_code) :
                                       loc \in {l \in Locations :
                                                    LocLabel(l) =
                                                        row.location_label}})

\* The summary table of the request of a summary chart, for a window size.
TableOf(req, interval) ==
    drawSummaryTable(readings, req.start_date, req.end_date, interval,
                     req.selected_locations, req.selected_gases)

\* C29: for the same range, location filter and gas filter the average
\* draw_summary_charts plots for a (location, gas) group is the time-period
\* average drawSummaryTable reports for the group, also when a reading is
\* logged exactly at range_start.
C29_ChartAverageIsTableAverage ==
    (agg.op = "draw_summary_charts"
     /\ agg.request.start_date < agg.request.end_date) =>
        \A interval \in Intervals :
            LET summary == TableOf(agg.request, interval)
            IN  summary.outcome = "drawn" =>
                    /\ \A row \in summary.table :
                           \E bar \in agg.response.averages :
                               /\ bar.location_label = Some(row.location_label)
                               /\ bar.gas_code = row.gas_code
                               /\ bar.avg_value = row.time_period_avg
                    /\ \A bar \in agg.response.averages :
                           \E row \in summary.table :
                               /\ bar.location_label = Some(row.location_label)
                               /\ bar.gas_code = row.gas_code
                               /\ bar.avg_value = row.time_period_avg

\* What does hold: the two agree when no selected reading is logged exactly
\* at range_start.
ChartAverageIsTableAverageOffStart ==
    (/\ agg.op = "draw_summary_charts"
     /\ \A r \in readings :
            ReportSelects(agg.request, r) =>
                r.log_time # agg.request.start_date) =>
        \A interval \in Intervals :
            LET summary == TableOf(agg.request, interval)
            IN  summary.outcome = "drawn" =>
                    /\ \A row \in summary.table :
                           \E bar \in agg.response.averages :
                               /\ bar.location_label = Some(row.location_label)
                               /\ bar.gas_code = row.gas_code
                               /\ bar.avg_value = row.time_period_avg
                    /\ \A bar \in agg.response.averages :
                           \E row \in summary.table :
                               /\ bar.location_label = Some(row.location_label)
                               /\ bar.gas_code = row.gas_code
                               /\ bar.avg_value = row.time_period_avg

\* ------------------------------------- SpecPasses: the two passes in turn
\* Schedules and invalidations together in a store of SpecPasses.
MaxRows == 3

\* Any accepted schedules and posted invalidations; the passes run one
\* after the other, in any order, any number of times.
InitPasses ==
    /\ dbTieOrder \in {"asc", "desc"}
    /\ schedules \in SavedStores(dbTieOrder)
    /\ invalidations \in PostedInvalidations
    /\ Cardinality(schedules) + Cardinality(invalidations) <= MaxRows
    /\ nextPk = Cardinality(schedules) + 1
    /\ nextInvPk = Cardinality(invalidations) + 1
    /\ saveResult = NoWrite
    /\ readings = ImportedReadings
    /\ lpass = NoLocPass
    /\ vpass = NoValPass
    /\ ovl = NoOverlapCall
    /\ agg = NoAgg
    /\ procs = NoProcs

NextPasses ==
    \/ LocClear
    \/ LocFetch
    \/ LocNextSchedule
    \/ LocUpdate
    \/ LocReturn
    \/ ValClear
    \/ ValFetch
    \/ ValUpdate
    \/ ValReturn

SpecPasses == InitPasses /\ [][NextPasses]_vars

\* The readings after the step are those before it, except for one field.
OnlyLocationChanged ==
    /\ \A q \in readings' :
           \E r \in readings : q = [r EXCEPT !.location = q.location]
    /\ \A r \in readings :
           \E q \in readings' : q = [r EXCEPT !.location = q.location]
OnlyValidationChanged ==
    /\ \A q \in readings' :
           \E r \in readings : q = [r EXCEPT !.validation = q.validation]
    /\ \A r \in readings :
           \E q \in readings' : q = [r EXCEPT !.validation = q.validation]

\* The two passes, run one after the other from the current readings, leave
\* the same readings in either order.
PassesCommute ==
    updateValidations(
        updateSensorReadingLocations(readings, schedules, dbTieOrder),
        invalidations, dbTieOrder)
    = updateSensorReadingLocations(
          updateValidations(readings, invalidations, dbTieOrder),
          schedules, dbTieOrder)

\* C30: the two backfill passes are independent: every step of
\* updateSensorReadingLocations changes only the location of readings and
\* every step of updateValidations only the validation, neither changes
\* schedules or invalidations, and the two passes run in either order from
\* the same state leave the same final state, which is the state the store
\* is in once both passes, however their steps interleaved, have returned.
C30_PassesIndependent ==
    [][/\ lpass' # lpass => OnlyLocationChanged
       /\ vpass' # vpass => OnlyValidationChanged
       /\ Cardinality(readings') = Cardinality(readings)
       /\ schedules' = schedules
       /\ invalidations' = invalidations
       /\ PassesCommute
       /\ (lpass'.pc = "done" /\ vpass'.pc = "done") =>
              /\ readings' = updateSensorReadingLocations(
                                  updateValidations(readings, invalidations,
                                                    dbTieOrder),
                                  schedules, dbTieOrder)
              /\ readings' = updateValidations(
                                  updateSensorReadingLocations(
                                      readings, schedules, dbTieOrder),
                                  invalidations, dbTieOrder)]_vars

\* Both passes have run to their return and a reading carries a location
\* and a validation.
C30_Witness ==
    /\ lpass.pc = "done"
    /\ vpass.pc = "done"
    /\ \E r \in readings : r.location # NoneLoc /\ r.validation # NonePk
    /\ \E r \in readings : r.location # NoneLoc /\ r.validation = NonePk
====
